---- MODULE Spec2Model ----
(***************************************************************************)
(* Mesh decomposition and ingestion pipeline of MapAI.                     *)
(*                                                                         *)
(* Coordinates are integers in units of 1/8 arc-second, so that the        *)
(* 7.5" x 11.25" cell steps and the cell centres are whole numbers:        *)
(*   1 degree = 28800, 1 minute = 480, 1 second = 8.                       *)
(* A bbox is <<minLon, minLat, maxLon, maxLat>> as in the source.          *)
(* The store is a record value `db`; every statement the code sends to the *)
(* store is an operator from a run state to a run state (see Stmt).        *)
(***************************************************************************)
EXTENDS Integers, Sequences, FiniteSets, TLC

VARIABLES db, run, hist, pre, env, gridIn, gridOut, callIn, callOut, jobs, lookup

vars == <<db, run, hist, pre, env, gridIn, gridOut, callIn, callOut, jobs, lookup>>

Min(a, b) == IF a <= b THEN a ELSE b
Max(a, b) == IF a >= b THEN a ELSE b
CeilDiv(a, b) == -((-a) \div b)
Range(s) == {s[i] : i \in DOMAIN s}

RECURSIVE Concat(_)
Concat(s) == IF s = <<>> THEN "" ELSE Head(s) \o Concat(Tail(s))

(* the concatenation of the sequences of ss, by halves *)
RECURSIVE Flatten(_)
Flatten(ss) ==
  IF Len(ss) = 0 THEN <<>>
  ELSE IF Len(ss) = 1 THEN ss[1]
  ELSE Flatten(SubSeq(ss, 1, Len(ss) \div 2))
       \o Flatten(SubSeq(ss, Len(ss) \div 2 + 1, Len(ss)))

(* Array.from(new Set(s)): the elements of s in the order of their first  *)
(* occurrence                                                             *)
Distinct(s) ==
  LET First(p) == \A j \in 1..(p[1] - 1) : s[j] # p[2]
      Second(ps) == [i \in DOMAIN ps |-> ps[i][2]]
  IN Second(SelectSeq([i \in DOMAIN s |-> <<i, s[i]>>], First))

RECURSIVE SetToSeq(_)
SetToSeq(S) ==
  IF S = {} THEN <<>>
  ELSE LET x == CHOOSE y \in S : TRUE IN <<x>> \o SetToSeq(S \ {x})

(***************************************************************************)
(* Grid constants (meshUtils / jisMesh)                                    *)
(***************************************************************************)
DEG == 28800
JAPAN_BOUNDS == <<3540384, 692352, 4434912, 1323360>>
MESH_LAT_STEP_SEC == 60
MESH_LON_STEP_SEC == 90
LAT_1KM_CLAMP == 239
LON_1KM_CLAMP == 359

(* The environment value MAX_MESH_CELLS_PER_FEATURE as the process sees it *)
(* after Number(...): unset, not a number, an infinity, or a number.       *)
EnvUnset == [t |-> "unset", v |-> 0]
EnvNaN == [t |-> "nan", v |-> 0]
EnvInf == [t |-> "inf", v |-> 0]
EnvNum(n) == [t |-> "num", v |-> n]

NumberOfEnv(e) == IF e.t = "unset" THEN EnvNum(0) ELSE e

Unbounded == [inf |-> TRUE, v |-> 0]

MAX_CELLS_PER_FEATURE(e) ==
  LET raw == NumberOfEnv(e)
  IN IF raw.t = "num" /\ raw.v > 0 THEN [inf |-> FALSE, v |-> raw.v] ELSE Unbounded

(* variant: the guard also triggers at the maximum itself *)
ExceedsMaxMutGE(total, max) == ~max.inf /\ total >= max.v

ExceedsMax(total, max) == ~max.inf /\ total > max.v

(***************************************************************************)
(* meshCode250: the 10-character identifier of the 250 m cell of (lat,lon) *)
(***************************************************************************)
Pad2(n) == IF n >= 0 /\ n <= 9 THEN "0" \o ToString(n) ELSE ToString(n)

meshCodeParts(lat, lon) ==
  LET p == (lat * 3) \div (2 * DEG)
      fl == lon \div DEG
      q == fl - 100
      r == (lat - p * 19200) \div 2400
      s == (lon - fl * DEG) \div 3600
      t == (lat - p * 19200 - r * 2400) \div 240
      u == (lon - fl * DEG - s * 3600) \div 360
      latBase == p * 19200 + r * 2400 + t * 240
      lonBase == (q + 100) * DEG + s * 3600 + u * 360
      latSecIn1km == Min(LAT_1KM_CLAMP, Max(0, lat - latBase))
      lonSecIn1km == Min(LON_1KM_CLAMP, Max(0, lon - lonBase))
      latHalf == latSecIn1km \div 120
      lonHalf == lonSecIn1km \div 180
      halfDigit == latHalf * 2 + lonHalf + 1
      latSecInHalf == latSecIn1km - latHalf * 120
      lonSecInHalf == lonSecIn1km - lonHalf * 180
      latQuarter == latSecInHalf \div 60
      lonQuarter == lonSecInHalf \div 90
      quarterDigit == latQuarter * 2 + lonQuarter + 1
  IN [p |-> p, q |-> q, r |-> r, s |-> s, t |-> t, u |-> u,
      half |-> halfDigit, quarter |-> quarterDigit]

FormatCode(c) ==
  Pad2(c.p) \o Pad2(c.q) \o ToString(c.r) \o ToString(c.s) \o ToString(c.t)
    \o ToString(c.u) \o ToString(c.half) \o ToString(c.quarter)

meshCode250(lat, lon) == FormatCode(meshCodeParts(lat, lon))

(***************************************************************************)
(* GridTiler                                                               *)
(***************************************************************************)
NoBbox == <<>>

intersectBbox(bbox, bounds) ==
  LET minLon == Max(bbox[1], bounds[1])
      minLat == Max(bbox[2], bounds[2])
      maxLon == Min(bbox[3], bounds[3])
      maxLat == Min(bbox[4], bounds[4])
  IN IF minLon >= maxLon \/ minLat >= maxLat THEN NoBbox
     ELSE <<minLon, minLat, maxLon, maxLat>>

(* rows, cols and the snapped start of the grid over a bounded bbox *)
gridExtent(bounded) ==
  LET startLatSec == (bounded[2] \div MESH_LAT_STEP_SEC) * MESH_LAT_STEP_SEC
      endLatSec == CeilDiv(bounded[4], MESH_LAT_STEP_SEC) * MESH_LAT_STEP_SEC
      startLonSec == (bounded[1] \div MESH_LON_STEP_SEC) * MESH_LON_STEP_SEC
      endLonSec == CeilDiv(bounded[3], MESH_LON_STEP_SEC) * MESH_LON_STEP_SEC
  IN [startLat |-> startLatSec, startLon |-> startLonSec,
      rows |-> CeilDiv(endLatSec - startLatSec, MESH_LAT_STEP_SEC),
      cols |-> CeilDiv(endLonSec - startLonSec, MESH_LON_STEP_SEC)]

cellAt(g, i, j) ==
  LET latSec == g.startLat + i * MESH_LAT_STEP_SEC
      lonSec == g.startLon + j * MESH_LON_STEP_SEC
  IN [meshId |-> meshCode250(latSec + MESH_LAT_STEP_SEC \div 2,
                             lonSec + MESH_LON_STEP_SEC \div 2),
      bbox |-> <<lonSec, latSec, lonSec + MESH_LON_STEP_SEC,
                 latSec + MESH_LAT_STEP_SEC>>]

GridCells(g) ==
  [k \in 1..(g.rows * g.cols) |-> cellAt(g, (k - 1) \div g.cols, (k - 1) % g.cols)]

(* the cells of the grid, unless there are more than the maximum *)
GuardedCells(g, max) ==
  IF ExceedsMax(g.rows * g.cols, max) THEN <<>> ELSE GridCells(g)

BoundedCells(bounded, e) ==
  IF bounded = NoBbox THEN <<>>
  ELSE GuardedCells(gridExtent(bounded), MAX_CELLS_PER_FEATURE(e))

buildMeshCells(bbox, e) == BoundedCells(intersectBbox(bbox, JAPAN_BOUNDS), e)

(***************************************************************************)
(* File and layer names.  A file name is a sequence of one-character       *)
(* strings; a layer or table name is a string.                             *)
(***************************************************************************)
UPPER == <<"A","B","C","D","E","F","G","H","I","J","K","L","M",
           "N","O","P","Q","R","S","T","U","V","W","X","Y","Z">>
LOWER == <<"a","b","c","d","e","f","g","h","i","j","k","l","m",
           "n","o","p","q","r","s","t","u","v","w","x","y","z">>
DIGITS == {"0","1","2","3","4","5","6","7","8","9"}

toLowerCase(cs) ==
  [i \in DOMAIN cs |->
     IF \E k \in DOMAIN UPPER : UPPER[k] = cs[i]
     THEN LOWER[CHOOSE k \in DOMAIN UPPER : UPPER[k] = cs[i]]
     ELSE cs[i]]

IsAlnum(c) == c \in Range(LOWER) \cup DIGITS

(* .replace(/[^a-z0-9]+/g, "_") *)
RECURSIVE replaceNonAlnum(_, _)
replaceNonAlnum(cs, acc) ==
  IF cs = <<>> THEN acc
  ELSE IF IsAlnum(Head(cs)) THEN replaceNonAlnum(Tail(cs), Append(acc, Head(cs)))
  ELSE IF acc # <<>> /\ acc[Len(acc)] = "_" THEN replaceNonAlnum(Tail(cs), acc)
  ELSE replaceNonAlnum(Tail(cs), Append(acc, "_"))

(* .replace(/^_+|_+$/g, "") *)
RECURSIVE trimUnderscores(_)
trimUnderscores(cs) ==
  IF cs = <<>> THEN cs
  ELSE IF Head(cs) = "_" THEN trimUnderscores(Tail(cs))
  ELSE IF cs[Len(cs)] = "_" THEN trimUnderscores(SubSeq(cs, 1, Len(cs) - 1))
  ELSE cs

normalizeLayerName(rawName) ==
  LET base == trimUnderscores(replaceNonAlnum(toLowerCase(rawName), <<>>))
  IN IF base = <<>> THEN "layer"
     ELSE IF base[1] \in Range(LOWER) THEN Concat(base)
     ELSE "layer_" \o Concat(base)

(* path.extname: from the last "." on, unless there is none or it leads *)
extname(f) ==
  LET dots == {i \in DOMAIN f : f[i] = "."}
  IN IF dots = {} THEN <<>>
     ELSE LET d == CHOOSE i \in dots : \A j \in dots : j <= i
          IN IF d = 1 THEN <<>> ELSE SubSeq(f, d, Len(f))

(* path.basename(fileName, ext) for a name without directories *)
basename(f, ext) ==
  IF ext # <<>> /\ Len(f) > Len(ext)
     /\ SubSeq(f, Len(f) - Len(ext) + 1, Len(f)) = ext
  THEN SubSeq(f, 1, Len(f) - Len(ext))
  ELSE f

GEOJSON_EXT == <<".","g","e","o","j","s","o","n">>

(* file.toLowerCase().endsWith(".geojson") *)
isGeojsonFile(f) ==
  LET l == toLowerCase(f)
  IN Len(l) >= Len(GEOJSON_EXT)
     /\ SubSeq(l, Len(l) - Len(GEOJSON_EXT) + 1, Len(l)) = GEOJSON_EXT

FIXED_TABLES == {"mesh_index", "point_features", "line_features",
                 "polygon_features", "line_mesh_map", "polygon_mesh_map",
                 "layer_registry"}
NULL == "<null>"

(***************************************************************************)
(* Features.  A geometry is [type, parts]:                                 *)
(*   Point            parts = << <<lon, lat>> >>                           *)
(*   MultiPoint       parts = sequence of <<lon, lat>>                     *)
(*   LineString       parts = << vertices >>, vertices a sequence of       *)
(*                    <<lon, lat>>                                         *)
(*   MultiLineString  parts = sequence of vertex sequences                 *)
(*   Polygon          parts = << ring >>, the ring an axis-parallel        *)
(*                    rectangle given as its bbox                          *)
(*   MultiPolygon     parts = sequence of such rectangles                  *)
(*   any other type   parts = <<>>;  type NULL is a missing geometry.      *)
(* A feature is [geometry, properties], properties an opaque tag.          *)
(***************************************************************************)
Geom(type, parts) == [type |-> type, parts |-> parts]
Feat(type, parts, props) == [geometry |-> Geom(type, parts), properties |-> props]

IsLineGeom(g) == g.type \in {"LineString", "MultiLineString"}
IsPolygonGeom(g) == g.type \in {"Polygon", "MultiPolygon"}

(* turf bbox of a line or polygon geometry *)
lineVertices(g) == Flatten(g.parts)
MinOf(S) == CHOOSE x \in S : \A y \in S : x <= y
MaxOf(S) == CHOOSE x \in S : \A y \in S : x >= y

verticesBbox(vs) ==
  <<MinOf({v[1] : v \in vs}), MinOf({v[2] : v \in vs}),
    MaxOf({v[1] : v \in vs}), MaxOf({v[2] : v \in vs})>>

rectanglesBbox(rs) ==
  <<MinOf({r[1] : r \in rs}), MinOf({r[2] : r \in rs}),
    MaxOf({r[3] : r \in rs}), MaxOf({r[4] : r \in rs})>>

turfBbox(g) ==
  IF IsLineGeom(g) THEN verticesBbox(Range(lineVertices(g)))
  ELSE rectanglesBbox(Range(g.parts))

(* turf length(feature) > 0: some segment joins two distinct vertices *)
segmentsOf(vs) == {<<vs[i], vs[i + 1]>> : i \in 1..(Len(vs) - 1)}
lineSegments(g) == UNION {segmentsOf(g.parts[i]) : i \in DOMAIN g.parts}
hasLength(g) == \E sg \in lineSegments(g) : sg[1] # sg[2]

(* turf area(feature) > 0 *)
hasArea(g) == \E r \in Range(g.parts) : r[1] < r[3] /\ r[2] < r[4]

(* The part of segment a + t (b - a), 0 <= t <= 1, inside the closed box, *)
(* on one axis: the interval [lo, hi] of t as fractions <<num, den>>,     *)
(* den > 0; <<1, 1>>..<<0, 1>> when the axis excludes the segment.        *)
axisInterval(a, b, lo, hi) ==
  IF b = a THEN IF lo <= a /\ a <= hi THEN <<<<0, 1>>, <<1, 1>>>>
                ELSE <<<<1, 1>>, <<0, 1>>>>
  ELSE IF b > a THEN <<<<lo - a, b - a>>, <<hi - a, b - a>>>>
  ELSE <<<<a - hi, a - b>>, <<a - lo, a - b>>>>

FracLess(x, y) == x[1] * y[2] < y[1] * x[2]
FracMax(x, y) == IF FracLess(x, y) THEN y ELSE x
FracMin(x, y) == IF FracLess(x, y) THEN x ELSE y

(* the clipped parameter interval of one segment in one cell bbox *)
clipSegment(sg, box) ==
  LET ix == axisInterval(sg[1][1], sg[2][1], box[1], box[3])
      iy == axisInterval(sg[1][2], sg[2][2], box[2], box[4])
  IN <<FracMax(<<0, 1>>, FracMax(ix[1], iy[1])),
       FracMin(<<1, 1>>, FracMin(ix[2], iy[2]))>>

(* variant: a clip without length is kept *)
clippedHasLengthMutAlways(g, box) == TRUE

(* length(bboxClip(line, box)) > 0 *)
clippedHasLength(g, box) ==
  \E sg \in lineSegments(g) :
     sg[1] # sg[2] /\ LET c == clipSegment(sg, box) IN FracLess(c[1], c[2])

(* area(bboxClip(polygon, box)) > 0 *)
clippedHasArea(g, box) ==
  \E r \in Range(g.parts) :
     Max(r[1], box[1]) < Min(r[3], box[3]) /\ Max(r[2], box[2]) < Min(r[4], box[4])

(* Measures.  A length or an area ratio is a fraction <<num, den>> in     *)
(* lowest terms, den > 0.                                                  *)
RECURSIVE GCD(_, _)
GCD(a, b) == IF b = 0 THEN a ELSE GCD(b, a % b)

Reduce(x) ==
  LET g == GCD(IF x[1] < 0 THEN -x[1] ELSE x[1], x[2])
  IN <<x[1] \div g, x[2] \div g>>

FracAdd(x, y) == Reduce(<<x[1] * y[2] + y[1] * x[2], x[2] * y[2]>>)
FracSub(x, y) == Reduce(<<x[1] * y[2] - y[1] * x[2], x[2] * y[2]>>)
FracTimes(k, x) == Reduce(<<k * x[1], x[2]>>)
FracDiv(x, y) == Reduce(<<x[1] * y[2], x[2] * y[1]>>)
FracLeq(x, y) == x[1] * y[2] <= y[1] * x[2]

RECURSIVE FracSum(_)
FracSum(xs) == IF xs = <<>> THEN <<0, 1>> ELSE FracAdd(Head(xs), FracSum(Tail(xs)))

RECURSIVE SqrtIn(_, _, _)
SqrtIn(n, lo, hi) ==
  IF lo = hi THEN lo
  ELSE IF ((lo + hi + 1) \div 2) * ((lo + hi + 1) \div 2) <= n
       THEN SqrtIn(n, (lo + hi + 1) \div 2, hi)
       ELSE SqrtIn(n, lo, (lo + hi + 1) \div 2 - 1)

IntSqrt(n) == SqrtIn(n, 0, Min(n, 46340))

(* turf length of one segment: the distance between its ends, here on the *)
(* plane tangent at the latitude of central Tokyo, where a unit of        *)
(* longitude is 13/16 of a unit of latitude, rounded down to a whole      *)
(* number of sixteenths of a unit                                          *)
segmentLength(sg) ==
  IntSqrt((13 * (sg[2][1] - sg[1][1])) * (13 * (sg[2][1] - sg[1][1]))
          + (16 * (sg[2][2] - sg[1][2])) * (16 * (sg[2][2] - sg[1][2])))

(* the segments of a line in order, each as often as the line runs it *)
segmentList(g) ==
  Flatten([i \in DOMAIN g.parts |->
             [k \in 1..(Len(g.parts[i]) - 1) |-> <<g.parts[i][k], g.parts[i][k + 1]>>]])

(* length(feature) *)
lineLength(g) ==
  FracSum([k \in DOMAIN segmentList(g) |-> <<segmentLength(segmentList(g)[k]), 1>>])[1]

(* the share of a segment that bboxClip keeps in a cell bbox *)
SegmentShare(c) == IF FracLess(c[1], c[2]) THEN FracSub(c[2], c[1]) ELSE <<0, 1>>

(* length(bboxClip(line, box)) *)
clippedLength(g, box) ==
  FracSum([k \in DOMAIN segmentList(g) |->
             FracTimes(segmentLength(segmentList(g)[k]),
                       SegmentShare(clipSegment(segmentList(g)[k], box)))])

(* area(feature) of a rectangle, and of its part in a cell bbox *)
rectArea(r) == Max(0, r[3] - r[1]) * Max(0, r[4] - r[2])

rectMeet(r, box) ==
  <<Max(r[1], box[1]), Max(r[2], box[2]), Min(r[3], box[3]), Min(r[4], box[4])>>

polygonArea(g) == FracSum([i \in DOMAIN g.parts |-> <<rectArea(g.parts[i]), 1>>])[1]

clippedArea(g, box) ==
  FracSum([i \in DOMAIN g.parts |-> <<rectArea(rectMeet(g.parts[i], box)), 1>>])

RatioOfMutInverted(clipped, total) == FracDiv(<<total, 1>>, clipped)

(* Math.min(1, clipped / total) *)
RatioOf(clipped, total) == FracMin(<<1, 1>>, FracDiv(clipped, <<total, 1>>))

lengthRatio(g, box) == RatioOf(clippedLength(g, box), lineLength(g))
areaRatio(g, box) == RatioOf(clippedArea(g, box), polygonArea(g))

PiecesOf(g, kept) ==
  [i \in DOMAIN kept |->
     [meshId |-> kept[i].meshId,
      ratio |-> IF IsLineGeom(g) THEN lengthRatio(g, kept[i].bbox)
                ELSE areaRatio(g, kept[i].bbox)]]

LineCells(g, cells) ==
  LET Keep(cell) == clippedHasLength(g, cell.bbox) IN SelectSeq(cells, Keep)

PolygonCells(g, cells) ==
  LET Keep(cell) == clippedHasArea(g, cell.bbox) IN SelectSeq(cells, Keep)

buildLineMeshPieces(g, e) ==
  IF ~hasLength(g) THEN <<>>
  ELSE PiecesOf(g, LineCells(g, buildMeshCells(turfBbox(g), e)))

buildPolygonMeshPieces(g, e) ==
  IF ~hasArea(g) THEN <<>>
  ELSE PiecesOf(g, PolygonCells(g, buildMeshCells(turfBbox(g), e)))

(***************************************************************************)
(* The store.                                                              *)
(*   idx   mesh_index: meshId -> [hasPoints, hasLines, hasPolygons,        *)
(*         layerPresence (the set of keys of the jsonb map)]               *)
(*   pf, lf, gf      point_features, line_features, polygon_features:      *)
(*         rows [id, sourceLayer, meshId, geometry, properties]            *)
(*   lmm, pmm        line_mesh_map, polygon_mesh_map:                      *)
(*         rows [id, sourceLayer, ref, meshId, properties]                 *)
(*   reg   layer_registry rows                                             *)
(*   dyn   the per-layer tables: name -> [cols, rows]                      *)
(*   dropped   the fixed tables that were dropped                          *)
(* A generated id is the least id unused in its table: the code uses ids   *)
(* only as keys of live rows.                                              *)
(***************************************************************************)
EmptyFn == [x \in {} |-> x]

EmptyDb ==
  [idx |-> EmptyFn, pf |-> {}, lf |-> {}, gf |-> {}, lmm |-> {}, pmm |-> {},
   reg |-> {}, dyn |-> EmptyFn, dropped |-> {}]

NewMeshRow ==
  [hasPoints |-> FALSE, hasLines |-> FALSE, hasPolygons |-> FALSE,
   layerPresence |-> {}]

RECURSIVE FreshIds(_, _)
FreshIds(used, n) ==
  IF n = 0 THEN <<>>
  ELSE LET i == CHOOSE k \in 1..(Cardinality(used) + 1) :
                  k \notin used /\ \A j \in 1..(k - 1) : j \in used
       IN <<i>> \o FreshIds(used \cup {i}, n - 1)

Ids(rows) == {r.id : r \in rows}

HasFixed(d, name) == name \in FIXED_TABLES /\ name \notin d.dropped
IsDyn(d, name) == name \in DOMAIN d.dyn

(* SELECT 1 FROM information_schema.tables WHERE table_name = $1 *)
tableExists(d, name) == IsDyn(d, name) \/ HasFixed(d, name)

(* the store with the rows of dynamic table name replaced *)
WithRows(d, name, rows) ==
  [d EXCEPT !.dyn = [t \in DOMAIN d.dyn |->
                       IF t = name THEN [cols |-> d.dyn[t].cols, rows |-> rows]
                       ELSE d.dyn[t]]]

Referencers(name) ==
  CASE name = "mesh_index" ->
         {"point_features", "line_features", "polygon_features",
          "line_mesh_map", "polygon_mesh_map"}
    [] name = "line_features" -> {"line_mesh_map"}
    [] name = "polygon_features" -> {"polygon_mesh_map"}
    [] OTHER -> {}

(* DELETE FROM "name" with the ON DELETE CASCADE foreign keys *)
DeleteAllFrom(d, name) ==
  IF IsDyn(d, name) THEN WithRows(d, name, {})
  ELSE CASE name = "mesh_index" ->
              [d EXCEPT !.idx = EmptyFn, !.pf = {}, !.lf = {}, !.gf = {},
                        !.lmm = {}, !.pmm = {}]
         [] name = "point_features" -> [d EXCEPT !.pf = {}]
         [] name = "line_features" -> [d EXCEPT !.lf = {}, !.lmm = {}]
         [] name = "polygon_features" -> [d EXCEPT !.gf = {}, !.pmm = {}]
         [] name = "line_mesh_map" -> [d EXCEPT !.lmm = {}]
         [] name = "polygon_mesh_map" -> [d EXCEPT !.pmm = {}]
         [] name = "layer_registry" -> [d EXCEPT !.reg = {}]
         [] OTHER -> d

(* DROP TABLE: refused while another table references it *)
DropOk(d, name) ==
  IsDyn(d, name) \/ Referencers(name) \subseteq d.dropped

DropFrom(d, name) ==
  IF IsDyn(d, name)
  THEN [d EXCEPT !.dyn = [t \in DOMAIN d.dyn \ {name} |-> d.dyn[t]]]
  ELSE [DeleteAllFrom(d, name) EXCEPT !.dropped = @ \cup {name}]

(* CREATE TABLE IF NOT EXISTS "name" (cols) *)
CreateIfNotExists(d, name, cols) ==
  IF tableExists(d, name) THEN d
  ELSE [d EXCEPT !.dyn = [t \in DOMAIN d.dyn \cup {name} |->
                            IF t = name THEN [cols |-> cols, rows |-> {}]
                            ELSE d.dyn[t]]]

(* INSERT INTO "name" (columns of cols): the columns must be the table's *)
DynInsertOk(d, name, cols) == IsDyn(d, name) /\ d.dyn[name].cols = cols

DynInsert(d, name, rows) ==
  LET old == d.dyn[name].rows
      ids == FreshIds(Ids(old), Len(rows))
  IN WithRows(d, name,
        old \cup {[id |-> ids[i], meshId |-> rows[i].meshId,
                   properties |-> rows[i].properties,
                   ratio |-> IF "ratio" \in DOMAIN rows[i] THEN rows[i].ratio
                             ELSE NULL] : i \in DOMAIN rows})

(* SELECT DISTINCT mesh_id FROM "name" *)
SelectMeshIdsOk(d, name) == IsDyn(d, name) \/ name # "layer_registry"

SelectMeshIds(d, name) ==
  IF IsDyn(d, name) THEN {r.meshId : r \in d.dyn[name].rows}
  ELSE CASE name = "mesh_index" -> DOMAIN d.idx
         [] name = "point_features" -> {r.meshId : r \in d.pf}
         [] name = "line_features" -> {r.meshId : r \in d.lf}
         [] name = "polygon_features" -> {r.meshId : r \in d.gf}
         [] name = "line_mesh_map" -> {r.meshId : r \in d.lmm}
         [] name = "polygon_mesh_map" -> {r.meshId : r \in d.pmm}
         [] OTHER -> {}

(***************************************************************************)
(* A run state is [db, err, n, failAt]: the store, the error thrown so far *)
(* ("none", "input", "store"), the number of statements executed and the   *)
(* statement at which the store fails (-1: the store does not fail).       *)
(***************************************************************************)
StartState(d, failAt) == [db |-> d, err |-> "none", n |-> 0, failAt |-> failAt]

Throw(s, kind) == IF s.err # "none" THEN s ELSE [s EXCEPT !.err = kind]

Stmt(s, ok, newdb) ==
  IF s.err # "none" THEN s
  ELSE IF s.n = s.failAt \/ ~ok THEN [s EXCEPT !.err = "store"]
  ELSE [s EXCEPT !.db = newdb, !.n = s.n + 1]

INSERT_CHUNK_SIZE == 500

(* variant: all rows in one chunk *)
chunkArrayMutWhole(rows, size) == IF rows = <<>> THEN <<>> ELSE <<rows>>

RECURSIVE chunkArray(_, _)
chunkArray(rows, size) ==
  IF rows = <<>> THEN <<>>
  ELSE <<SubSeq(rows, 1, Min(size, Len(rows)))>>
       \o chunkArray(SubSeq(rows, size + 1, Len(rows)), size)

UpsertIdx(d, meshIds) ==
  [d EXCEPT !.idx = [m \in DOMAIN d.idx \cup meshIds |->
                       IF m \in DOMAIN d.idx THEN d.idx[m] ELSE NewMeshRow]]

UpsertChunk(s, chunk) ==
  Stmt(s, HasFixed(s.db, "mesh_index"), UpsertIdx(s.db, Range(chunk)))

RECURSIVE upsertMeshIndexChunks(_, _)
upsertMeshIndexChunks(s, chunks) ==
  IF chunks = <<>> THEN s
  ELSE upsertMeshIndexChunks(UpsertChunk(s, Head(chunks)), Tail(chunks))

upsertMeshIndex(s, meshIds) ==
  IF meshIds = <<>> THEN s
  ELSE upsertMeshIndexChunks(s, chunkArray(meshIds, INSERT_CHUNK_SIZE))

InsertDynamic(s, tableName, cols, chunk) ==
  Stmt(s, DynInsertOk(s.db, tableName, cols), DynInsert(s.db, tableName, chunk))

RECURSIVE insertRowsDynamicChunks(_, _, _, _)
insertRowsDynamicChunks(s, tableName, cols, chunks) ==
  IF chunks = <<>> THEN s
  ELSE insertRowsDynamicChunks(InsertDynamic(s, tableName, cols, Head(chunks)),
                               tableName, cols, Tail(chunks))

insertRowsDynamic(s, tableName, cols, rows) ==
  insertRowsDynamicChunks(s, tableName, cols, chunkArray(rows, INSERT_CHUNK_SIZE))

ExistsRow(rows, m) == \E r \in rows : r.meshId = m

RefreshFlags(d, meshIds) ==
  [d EXCEPT !.idx = [m \in DOMAIN d.idx |->
      IF m \in meshIds
      THEN [d.idx[m] EXCEPT !.hasPoints = ExistsRow(d.pf, m),
                            !.hasLines = ExistsRow(d.lmm, m),
                            !.hasPolygons = ExistsRow(d.pmm, m)]
      ELSE d.idx[m]]]

refreshMeshFlags(s, meshIds) ==
  IF meshIds = {} THEN s
  ELSE Stmt(s, \A t \in {"mesh_index", "point_features", "line_mesh_map",
                         "polygon_mesh_map"} : HasFixed(s.db, t),
            RefreshFlags(s.db, meshIds))

(* variant: the key is added where it is missing and removed where it is *)
(* present                                                                *)
SetPresenceMutToggle(d, layerName, meshIds, present) ==
  [d EXCEPT !.idx = [m \in DOMAIN d.idx |->
      IF m \in meshIds
      THEN [d.idx[m] EXCEPT !.layerPresence =
              IF layerName \in @ THEN @ \ {layerName} ELSE @ \cup {layerName}]
      ELSE d.idx[m]]]

SetPresence(d, layerName, meshIds, present) ==
  [d EXCEPT !.idx = [m \in DOMAIN d.idx |->
      IF m \in meshIds
      THEN [d.idx[m] EXCEPT !.layerPresence =
              IF present THEN @ \cup {layerName} ELSE @ \ {layerName}]
      ELSE d.idx[m]]]

(* variant: the layer's presence keys are never cleared *)
removeLayerPresenceMutNoop(s, layerName, meshIds) == s

removeLayerPresence(s, layerName, meshIds) ==
  IF meshIds = {} THEN s
  ELSE Stmt(s, HasFixed(s.db, "mesh_index"),
            SetPresence(s.db, layerName, meshIds, FALSE))

(* variant: the map is overwritten, not merged *)
addLayerPresenceMutOverwrite(s, layerName, meshIds) ==
  IF meshIds = {} THEN s
  ELSE Stmt(s, HasFixed(s.db, "mesh_index"),
            [s.db EXCEPT !.idx = [m \in DOMAIN s.db.idx |->
               IF m \in meshIds
               THEN [s.db.idx[m] EXCEPT !.layerPresence = {layerName}]
               ELSE s.db.idx[m]]])

addLayerPresence(s, layerName, meshIds) ==
  IF meshIds = {} THEN s
  ELSE Stmt(s, HasFixed(s.db, "mesh_index"),
            SetPresence(s.db, layerName, meshIds, TRUE))

(* returns [s, ids]: the query throws on a table without a mesh_id column *)
getLayerMeshIds(s, tableName, meshMapTable) ==
  IF s.err # "none" THEN [s |-> s, ids |-> {}]
  ELSE IF meshMapTable # NULL /\ tableExists(s.db, meshMapTable)
  THEN IF SelectMeshIdsOk(s.db, meshMapTable)
       THEN [s |-> s, ids |-> SelectMeshIds(s.db, meshMapTable)]
       ELSE [s |-> Throw(s, "store"), ids |-> {}]
  ELSE IF tableExists(s.db, tableName)
  THEN IF SelectMeshIdsOk(s.db, tableName)
       THEN [s |-> s, ids |-> SelectMeshIds(s.db, tableName)]
       ELSE [s |-> Throw(s, "store"), ids |-> {}]
  ELSE [s |-> s, ids |-> {}]

NotLayer(rows, layerName) == {r \in rows : r.sourceLayer # layerName}

(* variant: the layer's generic rows are never deleted *)
deleteGenericRowsMutNoop(s, layerName) == s

(* DELETE FROM line_features / polygon_features with the cascade to the  *)
(* mesh-map rows that reference the deleted rows                         *)
CascadeLines(d, kept) ==
  [d EXCEPT !.lf = kept, !.lmm = {r \in @ : r.ref \in Ids(kept)}]

CascadePolygons(d, kept) ==
  [d EXCEPT !.gf = kept, !.pmm = {r \in @ : r.ref \in Ids(kept)}]

DeletePointRows(s, layerName) ==
  Stmt(s, HasFixed(s.db, "point_features"),
       [s.db EXCEPT !.pf = NotLayer(@, layerName)])

DeleteLineRows(s, layerName) ==
  Stmt(s, HasFixed(s.db, "line_features"),
       CascadeLines(s.db, NotLayer(s.db.lf, layerName)))

DeletePolygonRows(s, layerName) ==
  Stmt(s, HasFixed(s.db, "polygon_features"),
       CascadePolygons(s.db, NotLayer(s.db.gf, layerName)))

DeleteLineMeshRows(s, layerName) ==
  Stmt(s, HasFixed(s.db, "line_mesh_map"),
       [s.db EXCEPT !.lmm = NotLayer(@, layerName)])

DeletePolygonMeshRows(s, layerName) ==
  Stmt(s, HasFixed(s.db, "polygon_mesh_map"),
       [s.db EXCEPT !.pmm = NotLayer(@, layerName)])

deleteGenericRows(s, layerName) ==
  DeletePolygonMeshRows(
    DeleteLineMeshRows(
      DeletePolygonRows(
        DeleteLineRows(DeletePointRows(s, layerName), layerName),
        layerName),
      layerName),
    layerName)

DeleteFromIfExists(s, tableName) ==
  IF s.err = "none" /\ tableName # NULL /\ tableExists(s.db, tableName)
  THEN Stmt(s, TRUE, DeleteAllFrom(s.db, tableName))
  ELSE s

deleteLayerTables(s, def) ==
  DeleteFromIfExists(DeleteFromIfExists(s, def.tableName), def.meshMapTable)

dropTable(s, tableName) ==
  IF s.err = "none" /\ tableExists(s.db, tableName)
  THEN Stmt(s, DropOk(s.db, tableName), DropFrom(s.db, tableName))
  ELSE s

CreateTable(s, name, cols) == Stmt(s, TRUE, CreateIfNotExists(s.db, name, cols))

ensureLayerTables(s, def) ==
  IF def.geometryType \in {"line", "polygon"} /\ def.meshMapTable # NULL
  THEN CreateTable(CreateTable(s, def.tableName, "base"),
                   def.meshMapTable, def.geometryType)
  ELSE CreateTable(s, def.tableName, "base")

(***************************************************************************)
(* Feature preparation                                                     *)
(***************************************************************************)
(* variant: no point is rejected *)
isPointInJapanMutAll(c) == TRUE

isPointInJapan(c) ==
  c[1] >= JAPAN_BOUNDS[1] /\ c[1] <= JAPAN_BOUNDS[3]
  /\ c[2] >= JAPAN_BOUNDS[2] /\ c[2] <= JAPAN_BOUNDS[4]

PointsOf(f) ==
  IF f.geometry.type = "Point"
  THEN <<[geometry |-> f.geometry, properties |-> f.properties]>>
  ELSE IF f.geometry.type = "MultiPoint"
  THEN [i \in DOMAIN f.geometry.parts |->
          [geometry |-> Geom("Point", <<f.geometry.parts[i]>>),
           properties |-> f.properties]]
  ELSE <<>>

explodePointFeatures(features) ==
  Flatten([i \in DOMAIN features |-> PointsOf(features[i])])

(* the item of a feature with its pieces; none when there is no piece *)
ItemOf(f, pieces) ==
  IF pieces = <<>> THEN <<>>
  ELSE <<[meshId |-> pieces[1].meshId, geometry |-> f.geometry,
          properties |-> f.properties, pieces |-> pieces]>>

LineItemOf(f, e) ==
  IF f.geometry.type = NULL \/ ~IsLineGeom(f.geometry) THEN <<>>
  ELSE ItemOf(f, buildLineMeshPieces(f.geometry, e))

PolygonItemOf(f, e) ==
  IF f.geometry.type = NULL \/ ~IsPolygonGeom(f.geometry) THEN <<>>
  ELSE ItemOf(f, buildPolygonMeshPieces(f.geometry, e))

toLineItems(features, e) ==
  Flatten([i \in DOMAIN features |-> LineItemOf(features[i], e)])

toPolygonItems(features, e) ==
  Flatten([i \in DOMAIN features |-> PolygonItemOf(features[i], e)])

(***************************************************************************)
(* Generic inserts                                                         *)
(***************************************************************************)
FeatureRows(old, layerName, items) ==
  LET ids == FreshIds(Ids(old), Len(items))
  IN [i \in DOMAIN items |->
        [id |-> ids[i], sourceLayer |-> layerName, meshId |-> items[i].meshId,
         geometry |-> items[i].geometry, properties |-> items[i].properties]]

(* the mesh rows of a chunk of items, given the returned feature rows *)
MeshRowsOf(inserted, chunk) ==
  Flatten([i \in DOMAIN chunk |->
             [k \in DOMAIN chunk[i].pieces |->
                [ref |-> inserted[i].id, meshId |-> chunk[i].pieces[k].meshId,
                 properties |-> chunk[i].properties,
                 ratio |-> chunk[i].pieces[k].ratio]]])

MeshMapRows(old, layerName, rows) ==
  LET ids == FreshIds(Ids(old), Len(rows))
  IN {[id |-> ids[i], sourceLayer |-> layerName, ref |-> rows[i].ref,
       meshId |-> rows[i].meshId, properties |-> rows[i].properties,
       ratio |-> rows[i].ratio]
        : i \in DOMAIN rows}

AllIn(d, meshIds) == meshIds \subseteq DOMAIN d.idx

MeshIdsOf(rows) == {r.meshId : r \in Range(rows)}

InsertPoints(s, rows) ==
  Stmt(s, HasFixed(s.db, "point_features") /\ AllIn(s.db, MeshIdsOf(rows)),
       [s.db EXCEPT !.pf = @ \cup Range(rows)])

RECURSIVE insertPointChunks(_, _, _)
insertPointChunks(s, layerName, chunks) ==
  IF chunks = <<>> THEN s
  ELSE insertPointChunks(
         InsertPoints(s, FeatureRows(s.db.pf, layerName, Head(chunks))),
         layerName, Tail(chunks))

InsertMeshMap(s, kind, layerName, c) ==
  IF kind = "line"
  THEN Stmt(s, AllIn(s.db, MeshIdsOf(c)) /\ HasFixed(s.db, "line_mesh_map")
               /\ {r.ref : r \in Range(c)} \subseteq Ids(s.db.lf),
            [s.db EXCEPT !.lmm = @ \cup MeshMapRows(@, layerName, c)])
  ELSE Stmt(s, AllIn(s.db, MeshIdsOf(c)) /\ HasFixed(s.db, "polygon_mesh_map")
               /\ {r.ref : r \in Range(c)} \subseteq Ids(s.db.gf),
            [s.db EXCEPT !.pmm = @ \cup MeshMapRows(@, layerName, c)])

RECURSIVE insertMeshMapChunks(_, _, _, _)
insertMeshMapChunks(s, kind, layerName, chunks) ==
  IF chunks = <<>> THEN s
  ELSE insertMeshMapChunks(InsertMeshMap(s, kind, layerName, Head(chunks)),
                           kind, layerName, Tail(chunks))

(* one chunk of items: the feature rows, their mesh rows, the layer's own *)
(* mesh-map rows                                                          *)
FeatureTable(d, kind) == IF kind = "line" THEN d.lf ELSE d.gf

(* INSERT INTO line_features / polygon_features ... RETURNING id *)
InsertFeatures(s, kind, inserted) ==
  IF kind = "line"
  THEN Stmt(s, AllIn(s.db, MeshIdsOf(inserted)) /\ HasFixed(s.db, "line_features"),
            [s.db EXCEPT !.lf = @ \cup Range(inserted)])
  ELSE Stmt(s, AllIn(s.db, MeshIdsOf(inserted)) /\ HasFixed(s.db, "polygon_features"),
            [s.db EXCEPT !.gf = @ \cup Range(inserted)])

InsertChunkMeshRows(s, kind, def, meshRows) ==
  insertRowsDynamic(
    insertMeshMapChunks(s, kind, def.layerName,
                        chunkArray(meshRows, INSERT_CHUNK_SIZE)),
    def.meshMapTable, kind, meshRows)

InsertItemChunk(s, kind, def, chunk, inserted) ==
  InsertChunkMeshRows(InsertFeatures(s, kind, inserted), kind, def,
                      MeshRowsOf(inserted, chunk))

RECURSIVE insertItemChunks(_, _, _, _)
insertItemChunks(s, kind, def, chunks) ==
  IF chunks = <<>> THEN s
  ELSE insertItemChunks(
         InsertItemChunk(s, kind, def, Head(chunks),
                         FeatureRows(FeatureTable(s.db, kind), def.layerName,
                                     Head(chunks))),
         kind, def, Tail(chunks))

(***************************************************************************)
(* Layer processing.  Each returns [s, meshIds].                           *)
(***************************************************************************)
KeptPoints(features) ==
  LET InJapan(f) == isPointInJapan(f.geometry.parts[1])
  IN SelectSeq(explodePointFeatures(features), InJapan)

PointRows(kept) ==
  [i \in DOMAIN kept |->
     [meshId |-> meshCode250(kept[i].geometry.parts[1][2],
                             kept[i].geometry.parts[1][1]),
      geometry |-> kept[i].geometry,
      properties |-> kept[i].properties]]

(* Array.from(meshIds) of processPointLayer *)
PointMeshIds(rows) == Distinct([i \in DOMAIN rows |-> rows[i].meshId])

(* meshIndexIds of processLineLayer and processPolygonLayer: the primary  *)
(* meshes, then the meshes of the pieces                                  *)
(* variant: only the mesh of each item, not those of its pieces *)
MeshIndexIdsMutItems(items) == Distinct([i \in DOMAIN items |-> items[i].meshId])

MeshIndexIds(items) ==
  Distinct([i \in DOMAIN items |-> items[i].meshId]
           \o Flatten([i \in DOMAIN items |->
                         [k \in DOMAIN items[i].pieces |-> items[i].pieces[k].meshId]]))

StorePoints(s, def, rows) ==
  [s |-> insertPointChunks(
           insertRowsDynamic(upsertMeshIndex(s, PointMeshIds(rows)),
                             def.tableName, "base", rows),
           def.layerName, chunkArray(rows, INSERT_CHUNK_SIZE)),
   meshIds |-> MeshIdsOf(rows)]

processPointLayer(s, def, e) ==
  StorePoints(s, def, PointRows(KeptPoints(def.features)))

PieceMeshIds(items) ==
  UNION {{pc.meshId : pc \in Range(it.pieces)} : it \in Range(items)}

processItems(s, def, kind, items) ==
  [s |-> insertItemChunks(
           insertRowsDynamic(
             upsertMeshIndex(s, MeshIndexIds(items)),
             def.tableName, "base", items),
           kind, def, chunkArray(items, INSERT_CHUNK_SIZE)),
   meshIds |-> PieceMeshIds(items)]

processLineLayer(s, def, e) ==
  IF def.meshMapTable = NULL THEN [s |-> s, meshIds |-> {}]
  ELSE processItems(s, def, "line", toLineItems(def.features, e))

processPolygonLayer(s, def, e) ==
  IF def.meshMapTable = NULL THEN [s |-> s, meshIds |-> {}]
  ELSE processItems(s, def, "polygon", toPolygonItems(def.features, e))

RegistryRow(def) ==
  [layerName |-> def.layerName, tableName |-> def.tableName,
   geometryType |-> def.geometryType, meshMapTable |-> def.meshMapTable,
   sourceFile |-> def.sourceFile]

(* variant: a plain INSERT, the row of the same layer is kept *)
UpsertRegistryMutInsert(d, def) == [d EXCEPT !.reg = @ \cup {RegistryRow(def)}]

UpsertRegistry(d, def) ==
  [d EXCEPT !.reg = {r \in @ : r.layerName # def.layerName} \cup {RegistryRow(def)}]

(* a SELECT on layer_registry *)
SelectRegistry(s) ==
  IF HasFixed(s.db, "layer_registry") THEN s ELSE Throw(s, "store")

ExistingLayer(d, layerName) == {r \in d.reg : r.layerName = layerName}

(* [s, ids]: the meshes of the layer's previous registration, if any *)
OldMeshIds(s, existing) ==
  IF existing = {} THEN [s |-> s, ids |-> {}]
  ELSE getLayerMeshIds(s, (CHOOSE r \in existing : TRUE).tableName,
                       (CHOOSE r \in existing : TRUE).meshMapTable)

DropPreviousMutKeep(s, def, existing) == s

DropPrevious(s, def, existing) ==
  IF existing # {}
     /\ (CHOOSE r \in existing : TRUE).meshMapTable # NULL
     /\ (CHOOSE r \in existing : TRUE).geometryType # def.geometryType
  THEN dropTable(s, (CHOOSE r \in existing : TRUE).meshMapTable)
  ELSE s

ClearLayer(s, def, existing) ==
  ensureLayerTables(
    DropPrevious(deleteLayerTables(deleteGenericRows(s, def.layerName), def),
                 def, existing),
    def)

StoreLayer(s, def, e) ==
  IF def.geometryType = "point" THEN processPointLayer(s, def, e)
  ELSE IF def.geometryType = "line" THEN processLineLayer(s, def, e)
  ELSE processPolygonLayer(s, def, e)

(* r is what StoreLayer returned: [s, meshIds] *)
FinishLayer(r, def, oldMeshIds) ==
  refreshMeshFlags(
    addLayerPresence(removeLayerPresence(r.s, def.layerName, oldMeshIds),
                     def.layerName, r.meshIds),
    oldMeshIds \cup r.meshIds)

RegisterLayer(s, def) ==
  Stmt(s, HasFixed(s.db, "layer_registry"), UpsertRegistry(s.db, def))

ReplaceLayer(q, def, e, existing) ==
  RegisterLayer(
    FinishLayer(StoreLayer(ClearLayer(q.s, def, existing), def, e), def, q.ids),
    def)

processLayer(s, def, e) ==
  ReplaceLayer(OldMeshIds(SelectRegistry(s), ExistingLayer(s.db, def.layerName)),
               def, e, ExistingLayer(s.db, def.layerName))

DropMeshMapOf(s, layerRow) ==
  IF layerRow.meshMapTable # NULL THEN dropTable(s, layerRow.meshMapTable) ELSE s

DeleteRegistryRow(s, layerName) ==
  Stmt(s, HasFixed(s.db, "layer_registry"),
       [s.db EXCEPT !.reg = {r \in @ : r.layerName # layerName}])

(* q is what getLayerMeshIds returned: [s, ids] *)
RemoveLayerWith(q, layerRow) ==
  refreshMeshFlags(
    removeLayerPresence(
      DeleteRegistryRow(
        dropTable(DropMeshMapOf(deleteGenericRows(q.s, layerRow.layerName), layerRow),
                  layerRow.tableName),
        layerRow.layerName),
      layerRow.layerName, q.ids),
    q.ids)

removeLayer(s, layerRow) ==
  RemoveLayerWith(getLayerMeshIds(s, layerRow.tableName, layerRow.meshMapTable),
                  layerRow)

RECURSIVE removeLayers(_, _)
removeLayers(s, stale) ==
  IF stale = <<>> THEN s ELSE removeLayers(removeLayer(s, Head(stale)), Tail(stale))

RECURSIVE processLayers(_, _, _)
processLayers(s, defs, e) ==
  IF defs = <<>> THEN s
  ELSE processLayers(processLayer(s, Head(defs), e), Tail(defs), e)

(***************************************************************************)
(* ingestFile.  The file's content is                                      *)
(*   [kind, top, features]: kind "unreadable" (readFile throws), "badjson" *)
(*   (JSON.parse throws) or "json"; top the value of the document's "type" *)
(***************************************************************************)
Payload(kind, top, features) == [kind |-> kind, top |-> top, features |-> features]

(* [ok, features] *)
toFeatureCollection(raw) ==
  IF raw.top = "FeatureCollection" THEN [ok |-> TRUE, features |-> raw.features]
  ELSE IF raw.top = "Feature" THEN [ok |-> TRUE, features |-> SubSeq(raw.features, 1, 1)]
  ELSE [ok |-> FALSE, features |-> <<>>]

KINDS == <<"point", "line", "polygon">>

(* variant: a MultiPoint counts as a line *)
kindOfMutMulti(g) ==
  IF g.type = "Point" THEN "point"
  ELSE IF g.type \in {"MultiPoint", "LineString", "MultiLineString"} THEN "line"
  ELSE IF g.type \in {"Polygon", "MultiPolygon"} THEN "polygon" ELSE "none"

kindOf(g) ==
  IF g.type \in {"Point", "MultiPoint"} THEN "point"
  ELSE IF g.type \in {"LineString", "MultiLineString"} THEN "line"
  ELSE IF g.type \in {"Polygon", "MultiPolygon"} THEN "polygon"
  ELSE "none"

grouped(features) ==
  [k \in Range(KINDS) |->
     LET Is(f) == f.geometry.type # NULL /\ kindOf(f.geometry) = k
     IN SelectSeq(features, Is)]

suffixOf(geometryType) ==
  IF geometryType = "point" THEN "points"
  ELSE IF geometryType = "line" THEN "lines" ELSE "polygons"

PresentKinds(grp) ==
  LET IsPresent(k) == grp[k] # <<>> IN SelectSeq(KINDS, IsPresent)

(* variant: the suffix is added also when the file has one kind *)
LayerNameOfMutAlways(baseName, geometryType, useSuffix) ==
  baseName \o "_" \o suffixOf(geometryType)

LayerNameOf(baseName, geometryType, useSuffix) ==
  IF useSuffix THEN baseName \o "_" \o suffixOf(geometryType) ELSE baseName

LayerDef(layerName, geometryType, fileName, features) ==
  [layerName |-> layerName, tableName |-> layerName,
   geometryType |-> geometryType, sourceFile |-> fileName,
   meshMapTable |-> IF geometryType = "point" THEN NULL
                    ELSE layerName \o "_mesh_map",
   features |-> features]

LayerDefsFor(fileName, grp, baseName, geometryTypes) ==
  [i \in DOMAIN geometryTypes |->
     LayerDef(LayerNameOf(baseName, geometryTypes[i], Len(geometryTypes) > 1),
              geometryTypes[i], fileName, grp[geometryTypes[i]])]

GroupedDefs(fileName, grp) ==
  LayerDefsFor(fileName, grp,
               normalizeLayerName(basename(fileName, extname(fileName))),
               PresentKinds(grp))

layerDefsOf(fileName, features) == GroupedDefs(fileName, grouped(features))

StaleLayers(d, fileName, layerDefs) ==
  {r \in d.reg : r.sourceFile = fileName
                 /\ r.layerName \notin {def.layerName : def \in Range(layerDefs)}}

IngestLayers(s, fileName, layerDefs, e) ==
  IF layerDefs = <<>> THEN s
  ELSE processLayers(
         removeLayers(SelectRegistry(s),
                      SetToSeq(StaleLayers(s.db, fileName, layerDefs))),
         layerDefs, e)

IngestCollection(s, fileName, fc, e) ==
  IF ~fc.ok THEN Throw(s, "input")
  ELSE IngestLayers(s, fileName, layerDefsOf(fileName, fc.features), e)

ingestFile(s, fileName, raw, e) ==
  IF raw.kind # "json" THEN Throw(s, "input")
  ELSE IngestCollection(s, fileName, toFeatureCollection(raw), e)

(***************************************************************************)
(* Inputs: the data directory and what its files may contain.              *)
(* ORIGIN is the south-west corner of a 250 m cell in central Tokyo; cell  *)
(* A is that cell, B its eastern, C its northern, D its north-eastern      *)
(* neighbour.                                                              *)
(***************************************************************************)
ORIGIN == <<4025070, 1027560>>
At(dx, dy) == <<ORIGIN[1] + dx, ORIGIN[2] + dy>>

PointA == Feat("Point", <<At(10, 10)>>, "pA")
PointsBOut == Feat("MultiPoint", <<At(100, 10), <<0, 0>>>>, "pBOut")
PointOut == Feat("Point", <<<<0, 0>>>>, "pOut")
LineACD == Feat("LineString", <<<<At(10, 10), At(100, 70)>>>>, "lACD")
LineB == Feat("LineString", <<<<At(100, 10), At(120, 30)>>>>, "lB")
LineOut == Feat("LineString", <<<<<<0, 0>>, <<90, 60>>>>>>, "lOut")
PolyAB == Feat("Polygon", <<<<ORIGIN[1] + 10, ORIGIN[2] + 10,
                               ORIGIN[1] + 100, ORIGIN[2] + 50>>>>, "gAB")
Unsupported == Feat("GeometryCollection", <<>>, "x")
NoGeometry == Feat(NULL, <<>>, "n")

FC(features) == Payload("json", "FeatureCollection", features)

F_a == <<"a">> \o GEOJSON_EXT
F_A == <<"A", ".", "G", "E", "O", "J", "S", "O", "N">>
F_line == <<"l", "i", "n", "e">> \o GEOJSON_EXT
F_mesh_index == <<"m", "e", "s", "h", "-", "i", "n", "d", "e", "x">> \o GEOJSON_EXT
F_notes == <<"n", "o", "t", "e", "s", ".", "t", "x", "t">>

DataDir == {F_a, F_A, F_line, F_mesh_index, F_notes}

Catalog(f) ==
  IF f = F_a
  THEN {FC(<<PointA, LineB>>), FC(<<LineACD, LineB>>), FC(<<PointA, PointsBOut>>),
        FC(<<Unsupported, NoGeometry>>), FC(<<PolyAB, NoGeometry>>),
        Payload("unreadable", "", <<>>), Payload("badjson", "", <<>>)}
  ELSE IF f = F_A
  THEN {Payload("json", "Feature", <<PointsBOut>>), Payload("json", "Topology", <<>>)}
  ELSE IF f = F_line
  THEN {FC(<<LineOut>>), FC(<<LineB>>)}
  ELSE {FC(<<PointOut>>)}

StoreEnvs == {EnvUnset, EnvNum(2)}

MaxRuns == 2
MaxFaultRuns == 1

(***************************************************************************)
(* ingestAll: one run over the directory.                                  *)
(*   run = [pc, no, todo, ingested, exitCode, err]                         *)
(*   hist = what the last ingestFile call was and how it ended             *)
(*   pre = the store before the last ingestFile call                       *)
(***************************************************************************)
NoHist == [file |-> <<>>, raw |-> Payload("none", "", <<>>), outcome |-> "none",
           repeat |-> FALSE, clean |-> TRUE]

GridIdle == [bbox |-> NoBbox, e |-> EnvUnset]

(* callIn, callOut: the arguments and the result of a function called on   *)
(* its own; NoCall when no such call is made                               *)
NoCall == [fn |-> "none"]

(* jobs: the processLayer calls in progress, each with its position and   *)
(* what it has read; lookup: the /lookup request in progress; none when   *)
(* the store has a single client                                           *)
NoLookup == [pc |-> "none"]

Init ==
  /\ db = EmptyDb
  /\ run = [pc |-> "idle", no |-> 0, todo |-> {}, ingested |-> {},
            exitCode |-> 0, err |-> "none"]
  /\ hist = NoHist
  /\ pre = EmptyDb
  /\ env \in StoreEnvs
  /\ gridIn = GridIdle
  /\ gridOut = [done |-> FALSE, cells |-> <<>>]
  /\ callIn = NoCall
  /\ callOut = NoCall
  /\ jobs = <<>>
  /\ lookup = NoLookup

geojsonFiles(files) == {f \in files : isGeojsonFile(f)}

StartRunUpTo(maxRuns) ==
  /\ run.pc \in {"idle", "done", "failed"}
  /\ run.no < maxRuns
  /\ run' = [pc |-> IF geojsonFiles(DataDir) = {} THEN "done" ELSE "running",
             no |-> run.no + 1, todo |-> geojsonFiles(DataDir), ingested |-> {},
             exitCode |-> 0, err |-> "none"]
  /\ UNCHANGED <<db, hist, pre, env, gridIn, gridOut, callIn, callOut, jobs, lookup>>

(* the effect of one ingestFile call that ended as run state s *)
AfterIngest(f, raw, s) ==
  /\ db' = s.db
  /\ pre' = db
  /\ hist' = [file |-> f, raw |-> raw,
              outcome |-> IF s.err = "none" THEN "ok" ELSE s.err,
              repeat |-> s.err = "none" /\ hist.outcome = "ok"
                         /\ hist.file = f /\ hist.raw = raw,
              clean |-> hist.clean /\ s.err # "store"]
  /\ run' = IF s.err = "none"
            THEN [run EXCEPT !.todo = @ \ {f}, !.ingested = @ \cup {f},
                             !.pc = IF run.todo = {f} THEN "done" ELSE "running"]
            ELSE [run EXCEPT !.pc = "failed", !.exitCode = 1, !.err = s.err]
  /\ UNCHANGED <<env, gridIn, gridOut, callIn, callOut, jobs, lookup>>

(* ingestFile runs to its end, or to the first error it raises itself *)
IngestFile ==
  /\ run.pc = "running"
  /\ \E f \in run.todo : \E raw \in Catalog(f) :
       AfterIngest(f, raw, ingestFile(StartState(db, -1), f, raw, env))

(* the store fails at the k-th statement of the call *)
StatementsOf(f, raw) == ingestFile(StartState(db, -1), f, raw, env).n

FailedIngest(f, raw, s) == s.err = "store" /\ AfterIngest(f, raw, s)

IngestFileStoreError ==
  /\ run.pc = "running"
  /\ \E f \in run.todo : \E raw \in Catalog(f) :
       \E k \in 0..(StatementsOf(f, raw) - 1) :
          FailedIngest(f, raw, ingestFile(StartState(db, k), f, raw, env))

StartRun == StartRunUpTo(MaxRuns)

Next == StartRun \/ IngestFile

Spec == Init /\ [][Next]_vars

(* the same runs with a store that may fail at any statement *)
StartFaultRun == StartRunUpTo(MaxFaultRuns)

FaultNext == StartFaultRun \/ IngestFile \/ IngestFileStoreError

SpecFault == Init /\ [][FaultNext]_vars

(***************************************************************************)
(* Properties                                                              *)
(***************************************************************************)
GenericTables(d) == <<d.pf, d.lf, d.gf, d.lmm, d.pmm>>

RowCounts(rows) ==
  [L \in {r.sourceLayer : r \in rows} |->
     Cardinality({r \in rows : r.sourceLayer = L})]

Summary(d) ==
  [generic |-> [i \in 1..5 |-> RowCounts(GenericTables(d)[i])],
   dynamic |-> [t \in DOMAIN d.dyn |-> Cardinality(d.dyn[t].rows)],
   registry |-> d.reg,
   meshIndex |-> d.idx]

Completed == hist.outcome = "ok"

(* the layer definitions of the last ingested file *)
LastDefs ==
  IF hist.raw.kind = "json" /\ toFeatureCollection(hist.raw).ok
  THEN layerDefsOf(hist.file, toFeatureCollection(hist.raw).features)
  ELSE <<>>

(* C1: ingesting a file twice in a row with unchanged content leaves the  *)
(* row counts per source layer of every generic and dynamic table, the    *)
(* registry rows and the mesh index as they were after the first run.     *)
C1_IdempotentReingest == hist.repeat => Summary(db) = Summary(pre)

C1_Witness ==
  /\ hist.repeat
  /\ db.pf # {} /\ db.lmm # {} /\ DOMAIN db.dyn # {} /\ DOMAIN db.idx # {}

(***************************************************************************)
(* Layer removal on re-ingestion                                           *)
(***************************************************************************)
LastFeatures ==
  IF hist.raw.kind = "json" /\ toFeatureCollection(hist.raw).ok
  THEN toFeatureCollection(hist.raw).features
  ELSE <<>>

(* the layers the registry held for the last file before the last call *)
PrevLayers(kind) ==
  {r \in pre.reg : r.sourceFile = hist.file /\ r.geometryType = kind}

LayerRows(rows, layerName) == {r \in rows : r.sourceLayer = layerName}

HasGenericRows(d, layerName) ==
  \E i \in 1..5 : LayerRows(GenericTables(d)[i], layerName) # {}

(* the meshes a layer touched in store d *)
Touched(d, layer) ==
  {r.meshId : r \in LayerRows(d.pf \cup d.lmm \cup d.pmm, layer.layerName)}
  \cup (IF IsDyn(d, layer.tableName)
        THEN {r.meshId : r \in d.dyn[layer.tableName].rows} ELSE {})
  \cup {m \in DOMAIN d.idx : layer.layerName \in d.idx[m].layerPresence}

OnlyLinesNow ==
  /\ Completed
  /\ LastFeatures # <<>>
  /\ \A f \in Range(LastFeatures) : IsLineGeom(f.geometry)
  /\ PrevLayers("point") # {}
  /\ PrevLayers("line") # {}

(* the line features the ingestion keeps: those that yield a piece *)
KeptLines == {f \in Range(LastFeatures) : buildLineMeshPieces(f.geometry, env) # <<>>}

StoredOnce(layerName) ==
  LET rowsL == LayerRows(db.lf, layerName)
  IN /\ Cardinality(rowsL) = Cardinality(KeptLines)
     /\ \A f \in KeptLines :
          LET mine == {r \in rowsL : r.geometry = f.geometry
                                     /\ r.properties = f.properties}
              pieces == buildLineMeshPieces(f.geometry, env)
          IN /\ Cardinality(mine) = 1
             /\ \A r \in mine :
                  /\ \A k \in DOMAIN pieces :
                       Cardinality({x \in LayerRows(db.lmm, layerName) :
                                      x.ref = r.id /\ x.meshId = pieces[k].meshId}) = 1
                  /\ Cardinality({x \in LayerRows(db.lmm, layerName) : x.ref = r.id})
                       = Len(pieces)
     /\ \A x \in LayerRows(db.lmm, layerName) : x.ref \in Ids(rowsL)

ExpectedNames == {d.layerName : d \in Range(LastDefs)}

RegisteredFor(d, f) == {r \in d.reg : r.sourceFile = f}

Removed(d, layer) ==
  /\ ~HasGenericRows(d, layer.layerName)
  /\ ~IsDyn(d, layer.tableName)
  /\ layer.meshMapTable # NULL => ~IsDyn(d, layer.meshMapTable)
  /\ \A r \in d.reg : r.layerName # layer.layerName
  /\ \A m \in DOMAIN d.idx : layer.layerName \notin d.idx[m].layerPresence

(* C3: after a completed ingestFile(F) every registry row of F names a     *)
(* layer that F's content produces, and every layer registered for F       *)
(* before the call that F no longer produces has been removed: no generic  *)
(* rows, no dynamic tables, no registry row, no layerPresence entry; also  *)
(* when F holds no supported geometry at all.                              *)
C3_RegistryMatchesFile ==
  Completed =>
    /\ \A r \in RegisteredFor(db, hist.file) : r.layerName \in ExpectedNames
    /\ \A r \in RegisteredFor(pre, hist.file) :
         r.layerName \notin ExpectedNames => Removed(db, r)

(***************************************************************************)
(* Mesh index consistency                                                  *)
(***************************************************************************)
FlagsConsistent(d) ==
  \A m \in DOMAIN d.idx :
    /\ d.idx[m].hasPoints = ExistsRow(d.pf, m)
    /\ d.idx[m].hasLines = ExistsRow(d.lmm, m)
    /\ d.idx[m].hasPolygons = ExistsRow(d.pmm, m)

(* C4: in the first run from the empty store, after every completed        *)
(* ingestFile, each mesh has hasPoints iff a point_features row lies in    *)
(* it, hasLines iff a line_mesh_map row does, hasPolygons iff a            *)
(* polygon_mesh_map row does.                                              *)
C4_FlagsMatchRows == (run.no = 1 /\ Completed) => FlagsConsistent(db)

(* the rows a registered layer has in mesh m: point rows for a point       *)
(* layer, mesh-decomposition pieces for a line or polygon layer            *)
LayerHasRowIn(d, layer, m) ==
  LET rows == IF layer.geometryType = "point" THEN d.pf
              ELSE IF layer.geometryType = "line" THEN d.lmm ELSE d.pmm
  IN ExistsRow(LayerRows(rows, layer.layerName), m)

PresenceConsistent(d) ==
  \A m \in DOMAIN d.idx :
    d.idx[m].layerPresence =
      {r.layerName : r \in {x \in d.reg : LayerHasRowIn(d, x, m)}}

(* C5: after every completed ingestFile, layerPresence of a mesh holds     *)
(* exactly the registered layers that have a row in that mesh.             *)
C5_PresenceMatchesRows == Completed => PresenceConsistent(db)

(* C6: no ingestFile call deletes a mesh_index entry.                      *)
C6_MeshIndexAppendOnly == DOMAIN pre.idx \subseteq DOMAIN db.idx

(***************************************************************************)
(* Failures                                                                *)
(***************************************************************************)
RunEnded == run.pc \in {"done", "failed"}

(* C7: a file that is unreadable, is not JSON or is neither a Feature nor  *)
(* a FeatureCollection is skipped and the run goes on: a run the store did *)
(* not fail never ends with a file other than that one left to ingest.     *)
C7_BadFileIsSkipped ==
  (RunEnded /\ run.err # "store") => run.todo \subseteq {hist.file}

(* what store d holds is still in store e, unchanged: every generic row,   *)
(* every dynamic table with its rows, every registry row, every mesh with  *)
(* the layerPresence keys of the layers registered in d                    *)
Intact(d, e) ==
  /\ \A i \in 1..5 : GenericTables(d)[i] \subseteq GenericTables(e)[i]
  /\ \A t \in DOMAIN d.dyn : IsDyn(e, t) /\ d.dyn[t] = e.dyn[t]
  /\ d.reg \subseteq e.reg
  /\ \A m \in DOMAIN d.idx :
       /\ m \in DOMAIN e.idx
       /\ \A r \in d.reg : r.layerName \in d.idx[m].layerPresence
                             <=> r.layerName \in e.idx[m].layerPresence

(* C8: when the store fails during the ingestion of a file, the run ends   *)
(* failed with a non-zero exit status and everything the files completed   *)
(* before it wrote is unchanged.                                           *)
C8_StoreErrorKeepsCompleted ==
  hist.outcome = "store" =>
    /\ run.pc = "failed"
    /\ run.exitCode # 0
    /\ Intact(pre, db)

(* the candidate cell count of a feature exceeds the configured maximum *)
OverCap(g, e) ==
  LET bounded == intersectBbox(turfBbox(g), JAPAN_BOUNDS)
  IN /\ IF IsLineGeom(g) THEN hasLength(g) ELSE hasArea(g)
     /\ bounded # NoBbox
     /\ ExceedsMax(gridExtent(bounded).rows * gridExtent(bounded).cols,
                   MAX_CELLS_PER_FEATURE(e))

(* C9: a line or polygon feature whose candidate cell count exceeds the    *)
(* configured maximum is stored after the ingestion as a whole-feature row *)
(* of the generic feature table and of the layer's dynamic table, with no  *)
(* mesh-decomposition row.                                                 *)
C9_OverCapFeatureKept ==
  Completed =>
    \A i \in DOMAIN LastDefs :
      LET def == LastDefs[i]
          whole == IF def.geometryType = "line" THEN db.lf ELSE db.gf
          parts == IF def.geometryType = "line" THEN db.lmm ELSE db.pmm
      IN def.geometryType \in {"line", "polygon"} =>
           \A f \in Range(def.features) :
             OverCap(f.geometry, env) =>
               /\ \E r \in LayerRows(whole, def.layerName) :
                    /\ r.geometry = f.geometry
                    /\ r.properties = f.properties
                    /\ \A x \in LayerRows(parts, def.layerName) : x.ref # r.id
               /\ IsDyn(db, def.tableName)
               /\ \E r \in db.dyn[def.tableName].rows : r.properties = f.properties

(***************************************************************************)
(* buildMeshCells on its own: gridIn is the call's bbox and the            *)
(* environment value, gridOut what the call returned.                      *)
(* Corners are taken every half cell from two origins: ORIGIN, and a point *)
(* one cell outside the south-west corner of JAPAN_BOUNDS.                 *)
(***************************************************************************)
MaxGridSpan == 2
MaxGridCap == 4

GridOrigins ==
  {ORIGIN, <<JAPAN_BOUNDS[1] - MESH_LON_STEP_SEC, JAPAN_BOUNDS[2] - MESH_LAT_STEP_SEC>>}

GridSteps == 0..(2 * MaxGridSpan)

GridBoxes ==
  {<<o[1] + x0 * (MESH_LON_STEP_SEC \div 2), o[2] + y0 * (MESH_LAT_STEP_SEC \div 2),
     o[1] + x1 * (MESH_LON_STEP_SEC \div 2), o[2] + y1 * (MESH_LAT_STEP_SEC \div 2)>> :
     o \in GridOrigins, x0 \in GridSteps, y0 \in GridSteps,
     x1 \in GridSteps, y1 \in GridSteps}

GridEnvs == {EnvUnset, EnvNaN, EnvInf} \cup {EnvNum(n) : n \in (-1)..MaxGridCap}

GridInit ==
  /\ db = EmptyDb
  /\ run = [pc |-> "idle", no |-> 0, todo |-> {}, ingested |-> {},
            exitCode |-> 0, err |-> "none"]
  /\ hist = NoHist
  /\ pre = EmptyDb
  /\ env = EnvUnset
  /\ gridIn \in [bbox : GridBoxes, e : GridEnvs]
  /\ gridOut = [done |-> FALSE, cells |-> <<>>]
  /\ callIn = NoCall
  /\ callOut = NoCall
  /\ jobs = <<>>
  /\ lookup = NoLookup

BuildMeshCells ==
  /\ ~gridOut.done
  /\ gridOut' = [done |-> TRUE, cells |-> buildMeshCells(gridIn.bbox, gridIn.e)]
  /\ UNCHANGED <<db, run, hist, pre, env, gridIn, callIn, callOut, jobs, lookup>>

GridNext == BuildMeshCells

SpecGrid == GridInit /\ [][GridNext]_vars

(* the grid bands of width step that meet the open interval (lo, hi) *)
Bands(lo, hi, step) ==
  {k \in (lo \div step - 1)..(hi \div step + 1) : k * step < hi /\ (k + 1) * step > lo}

(* rows x cols of the bbox clipped to JAPAN_BOUNDS; 0 when they are apart *)
CandidateCells(bbox) ==
  LET b == intersectBbox(bbox, JAPAN_BOUNDS)
  IN IF b = NoBbox THEN 0
     ELSE Cardinality(Bands(b[2], b[4], MESH_LAT_STEP_SEC))
          * Cardinality(Bands(b[1], b[3], MESH_LON_STEP_SEC))

(* the configured maximum: a finite number above zero *)
Configured(e) == e.t = "num" /\ e.v > 0

(* C10: buildMeshCells returns the empty list when rows x cols is above    *)
(* the configured maximum and exactly rows x cols distinct cells when it   *)
(* is not; with the value unset, zero, negative, not a number or infinite  *)
(* the guard never triggers.                                               *)
C10_CapacityGuard ==
  gridOut.done =>
    LET total == CandidateCells(gridIn.bbox)
        cells == gridOut.cells
    IN IF Configured(gridIn.e) /\ total > gridIn.e.v
       THEN cells = <<>>
       ELSE /\ Len(cells) = total
            /\ Cardinality({c.meshId : c \in Range(cells)}) = total
            /\ Cardinality({c.bbox : c \in Range(cells)}) = total

C10_Witness ==
  /\ gridOut.done
  /\ Configured(gridIn.e)
  /\ CandidateCells(gridIn.bbox) = gridIn.e.v + 1
  /\ gridOut.cells = <<>>

(***************************************************************************)
(* Tiling coverage                                                         *)
(***************************************************************************)
(* the closed intersection of a bbox with JAPAN_BOUNDS; the bbox has       *)
(* min <= max on both axes                                                 *)
ClosedMeet(bbox) ==
  <<Max(bbox[1], JAPAN_BOUNDS[1]), Max(bbox[2], JAPAN_BOUNDS[2]),
    Min(bbox[3], JAPAN_BOUNDS[3]), Min(bbox[4], JAPAN_BOUNDS[4])>>

IsBox(bbox) == bbox[1] <= bbox[3] /\ bbox[2] <= bbox[4]

IntersectsJapan(bbox) == IsBox(bbox) /\ IsBox(ClosedMeet(bbox))

(* Representatives, in doubled coordinates, of the points and of the open  *)
(* intervals into which the marks cut [lo, hi]: a closed box with edges    *)
(* among the marks holds all of such a piece or none of it.                *)
Pieces1D(lo, hi, marks) ==
  LET crit == {lo, hi} \cup {m \in marks : lo < m /\ m < hi}
  IN {2 * c : c \in crit}
     \cup {p[1] + p[2] : p \in {q \in crit \X crit :
                                  q[1] < q[2]
                                  /\ \A y \in crit : ~(q[1] < y /\ y < q[2])}}

InDoubled(u, v, box) ==
  2 * box[1] <= u /\ u <= 2 * box[3] /\ 2 * box[2] <= v /\ v <= 2 * box[4]

(* every point of the closed rectangle r lies in one of the boxes *)
CoveredBy(r, boxes) ==
  \A u \in Pieces1D(r[1], r[3], {b[1] : b \in boxes} \cup {b[3] : b \in boxes}) :
    \A v \in Pieces1D(r[2], r[4], {b[2] : b \in boxes} \cup {b[4] : b \in boxes}) :
      \E b \in boxes : InDoubled(u, v, b)

(* two boxes share more than boundary *)
Overlap(a, b) ==
  Max(a[1], b[1]) < Min(a[3], b[3]) /\ Max(a[2], b[2]) < Min(a[4], b[4])

UnderGuard(bbox, e) == ~(Configured(e) /\ CandidateCells(bbox) > e.v)

(* C11: for every input bbox that intersects JAPAN_BOUNDS, with its cell   *)
(* count under the guard, the cell bboxes buildMeshCells returns cover the *)
(* intersection of the bbox with JAPAN_BOUNDS without a gap, and no two    *)
(* returned cells overlap in more than a shared boundary.                  *)
C11_TilingCoverage ==
  (gridOut.done /\ IntersectsJapan(gridIn.bbox) /\ UnderGuard(gridIn.bbox, gridIn.e)) =>
    /\ CoveredBy(ClosedMeet(gridIn.bbox), {c.bbox : c \in Range(gridOut.cells)})
    /\ \A i, j \in DOMAIN gridOut.cells :
         i # j => ~Overlap(gridOut.cells[i].bbox, gridOut.cells[j].bbox)

(* the same over the bboxes whose intersection with JAPAN_BOUNDS has an    *)
(* interior                                                                *)
TilingCoverageOfInterior ==
  (gridOut.done /\ intersectBbox(gridIn.bbox, JAPAN_BOUNDS) # NoBbox
     /\ UnderGuard(gridIn.bbox, gridIn.e)) =>
    /\ CoveredBy(ClosedMeet(gridIn.bbox), {c.bbox : c \in Range(gridOut.cells)})
    /\ \A i, j \in DOMAIN gridOut.cells :
         i # j => ~Overlap(gridOut.cells[i].bbox, gridOut.cells[j].bbox)

(***************************************************************************)
(* meshCode250 on doubles.                                                 *)
(* A JavaScript number (IEEE-754 binary64) close to a lattice value is     *)
(*   [u, d, e]:  u / DEG + d / (DEG * 2^(45 - e))  degrees,                *)
(* u the lattice value in 1/8", e the binary exponent of the number and d  *)
(* its distance from the lattice value.  DEG = 225 * 2^7 and one unit in   *)
(* the last place is 2^(e - 52), so d counts 1/225 of a unit in the last   *)
(* place and [u, d, e] is a double iff u * 2^(45 - e) + d is a multiple of *)
(* 225: the multiple is its 53-bit significand M.                          *)
(* The products lat * 1.5, lat * 60 and lat * 3600 are rounded to nearest, *)
(* ties to even; every other operation of meshCode250 is exact on these    *)
(* values or is a division whose rounding cannot reach an integer, so the  *)
(* result of a product is kept as its lattice value and the sign of its    *)
(* distance from it.                                                       *)
(***************************************************************************)
ODD_OF_DEG == DEG \div 128

RECURSIVE Pow2(_)
Pow2(n) == IF n = 0 THEN 1 ELSE 2 * Pow2(n - 1)

RECURSIVE Pow2Mod(_)
Pow2Mod(n) == IF n = 0 THEN 1 ELSE (2 * Pow2Mod(n - 1)) % ODD_OF_DEG

(* u * 2^k modulo 225 *)
Resid(u, k) == ((u % ODD_OF_DEG) * Pow2Mod(k)) % ODD_OF_DEG

RECURSIVE Log2Floor(_)
Log2Floor(n) == IF n < 2 THEN 0 ELSE 1 + Log2Floor(n \div 2)

Sign(n) == IF n > 0 THEN 1 ELSE IF n < 0 THEN -1 ELSE 0

UlpShift(e) == 45 - e

DoubleAt(u, d, e) == [u |-> u, d |-> d, e |-> e]

(* the double nearest to the lattice value u *)
NearestAt(u, e, m) ==
  DoubleAt(u, IF 2 * m < ODD_OF_DEG THEN -m ELSE ODD_OF_DEG - m, e)

NearestIn(u, e) == NearestAt(u, e, Resid(u, UlpShift(e)))

Nearest(u) == NearestIn(u, Log2Floor(u \div DEG))

(* the double n units in the last place above x *)
Ulps(x, n) == DoubleAt(x.u, x.d + ODD_OF_DEG * n, x.e)

(* the significand of x modulo 2^n *)
SignificandMod(x, n) ==
  ((Pow2(n) * Resid(x.u, UlpShift(x.e) - n) + x.d) % (ODD_OF_DEG * Pow2(n)))
    \div ODD_OF_DEG

(* round to nearest, ties to even: what is added to a significand whose   *)
(* value modulo 2 * w is rem when it is rounded to a multiple of w        *)
RoundingOf(rem, w) ==
  IF 2 * (rem % w) < w THEN -(rem % w)
  ELSE IF 2 * (rem % w) > w THEN w - (rem % w)
  ELSE IF rem < w THEN -(rem % w) ELSE w - (rem % w)

(* the sign of fl(x * cn / 2^h) - u * cn / 2^h, the product having j more *)
(* bits before the binary point than x                                    *)
RoundedSign(x, cn, h, j) ==
  Sign(cn * x.d
       + ODD_OF_DEG * RoundingOf((cn * SignificandMod(x, j + h + 1)) % (2 * Pow2(j + h)),
                                 Pow2(j + h)))

(* x * cn / 2^h, whole its integer part: [u, s], the lattice value of x   *)
(* and the sign of the product's distance from u * cn / 2^h               *)
Times(x, cn, h, whole) ==
  [u |-> x.u, s |-> RoundedSign(x, cn, h, Log2Floor(whole) - x.e)]

(* Math.floor(v / den) for v = w plus a distance of sign s *)
FloorNear(w, s, den) ==
  IF w % den = 0 /\ s < 0 THEN w \div den - 1 ELSE w \div den

(* Math.min(clamp + 0.999992 / 8, Math.max(0, v)) as [w, s] *)
ClampNear(w, s, clamp) ==
  IF w < 0 \/ (w = 0 /\ s < 0) THEN [w |-> 0, s |-> 0]
  ELSE IF w > clamp THEN [w |-> clamp, s |-> 1]
  ELSE [w |-> w, s |-> s]

QuadrantDigit(a, b, latStep, lonStep) ==
  FloorNear(a.w, a.s, latStep) * 2 + FloorNear(b.w, b.s, lonStep) + 1

Within(a, step) == [w |-> a.w - FloorNear(a.w, a.s, step) * step, s |-> a.s]

(* halfDigit and quarterDigit from latSecIn1km and lonSecIn1km *)
WithQuadrants(c, a, b) ==
  [p |-> c.p, q |-> c.q, r |-> c.r, s |-> c.s, t |-> c.t, u |-> c.u,
   half |-> QuadrantDigit(a, b, 120, 180),
   quarter |-> QuadrantDigit(Within(a, 120), Within(b, 180), 60, 90)]

(* c holds p, q, r, s, t, u; latS and lonS are lat * 3600 and lon * 3600 *)
WithSeconds(c, latS, lonS) ==
  WithQuadrants(c,
    ClampNear(latS.u - (c.p * 19200 + c.r * 2400 + c.t * 240), latS.s, LAT_1KM_CLAMP),
    ClampNear(lonS.u - ((c.q + 100) * DEG + c.s * 3600 + c.u * 360), lonS.s,
              LON_1KM_CLAMP))

WithTU(p, fl, r, s, latM, lonM) ==
  [p |-> p, q |-> fl - 100, r |-> r, s |-> s,
   t |-> FloorNear(latM.u - p * 19200 - r * 2400, latM.s, 240),
   u |-> FloorNear(lonM.u - fl * DEG - s * 3600, lonM.s, 360)]

(* p and Math.floor(lon) are known; latM and lonM are lat * 60 and lon * 60 *)
WithMinutes(p, fl, latM, lonM) ==
  WithTU(p, fl, FloorNear(latM.u - p * 19200, latM.s, 2400),
         FloorNear(lonM.u - fl * DEG, lonM.s, 3600), latM, lonM)

LeadingDigits(lat, lon, lat15) ==
  WithMinutes(FloorNear(lat15.u, lat15.s, 19200),
              FloorNear(lon.u, Sign(lon.d), DEG),
              Times(lat, 60, 0, lat.u \div 480), Times(lon, 60, 0, lon.u \div 480))

meshCodePartsOfDoubles(lat, lon) ==
  WithSeconds(LeadingDigits(lat, lon, Times(lat, 3, 1, (3 * lat.u) \div (2 * DEG))),
              Times(lat, 3600, 0, lat.u \div 8), Times(lon, 3600, 0, lon.u \div 8))

meshCode250OfDoubles(lat, lon) == FormatCode(meshCodePartsOfDoubles(lat, lon))

(***************************************************************************)
(* meshCode250 of the map view: the copy of the function the browser uses  *)
(* to name the cells of the displayed grid.                                *)
(***************************************************************************)
(* variant: the longitude half is the high bit of the quadrant digits *)
MapViewQuadrantsMutLonFirst(c, a, b) ==
  [p |-> c.p, q |-> c.q, r |-> c.r, s |-> c.s, t |-> c.t, u |-> c.u,
   half |-> FloorNear(b.w, b.s, 180) * 2 + FloorNear(a.w, a.s, 120) + 1,
   quarter |-> FloorNear(b.w - FloorNear(b.w, b.s, 180) * 180, b.s, 90) * 2
               + FloorNear(a.w - FloorNear(a.w, a.s, 120) * 120, a.s, 60) + 1]

(* latHalf, lonHalf, halfDigit, latSecInHalf, lonSecInHalf, latQuarter,   *)
(* lonQuarter, quarterDigit                                               *)
MapViewQuadrants(c, a, b) ==
  [p |-> c.p, q |-> c.q, r |-> c.r, s |-> c.s, t |-> c.t, u |-> c.u,
   half |-> FloorNear(a.w, a.s, 120) * 2 + FloorNear(b.w, b.s, 180) + 1,
   quarter |-> FloorNear(a.w - FloorNear(a.w, a.s, 120) * 120, a.s, 60) * 2
               + FloorNear(b.w - FloorNear(b.w, b.s, 180) * 180, b.s, 90) + 1]

(* latBaseSeconds, lonBaseSeconds, latSecIn1km, lonSecIn1km *)
MapViewSeconds(c, latSeconds, lonSeconds) ==
  MapViewQuadrants(c,
    ClampNear(latSeconds.u - (c.p * 19200 + c.r * 2400 + c.t * 240),
              latSeconds.s, LAT_1KM_CLAMP),
    ClampNear(lonSeconds.u - ((c.q + 100) * DEG + c.s * 3600 + c.u * 360),
              lonSeconds.s, LON_1KM_CLAMP))

(* t and u, fl being Math.floor(lon) *)
MapViewThird(p, fl, r, s, latMinutes, lonMinutes) ==
  [p |-> p, q |-> fl - 100, r |-> r, s |-> s,
   t |-> FloorNear(latMinutes.u - p * 19200 - r * 2400, latMinutes.s, 240),
   u |-> FloorNear(lonMinutes.u - fl * DEG - s * 3600, lonMinutes.s, 360)]

(* r and s *)
MapViewSecond(p, fl, latMinutes, lonMinutes) ==
  MapViewThird(p, fl, FloorNear(latMinutes.u - p * 19200, latMinutes.s, 2400),
               FloorNear(lonMinutes.u - fl * DEG, lonMinutes.s, 3600),
               latMinutes, lonMinutes)

(* p, Math.floor(lon), latMinutes, lonMinutes *)
MapViewFirst(lat, lon) ==
  MapViewSecond(FloorNear(lat.u, Times(lat, 3, 1, (3 * lat.u) \div (2 * DEG)).s, 19200),
                FloorNear(lon.u, Sign(lon.d), DEG),
                Times(lat, 60, 0, lat.u \div 480), Times(lon, 60, 0, lon.u \div 480))

mapViewMeshCode250(lat, lon) ==
  FormatCode(MapViewSeconds(MapViewFirst(lat, lon),
                            Times(lat, 3600, 0, lat.u \div 8),
                            Times(lon, 3600, 0, lon.u \div 8)))

(***************************************************************************)
(* meshCode250 on its own: callIn holds two coordinates a and b, callOut   *)
(* the string returned for each, the digits computed for a and the string  *)
(* the map view computes for a.                                            *)
(* The latitudes are the doubles within MaxUlps units in the last place of *)
(* the parallel 32 deg 40' (a boundary of the primary mesh), of the south  *)
(* edge of the cell at ORIGIN, of the middle of that cell and of its north *)
(* edge; the longitudes likewise around the west edge, the middle and the  *)
(* east edge of the cell.                                                  *)
(***************************************************************************)
MaxUlps == 1

LatMarks == {49 * 19200, ORIGIN[2], ORIGIN[2] + MESH_LAT_STEP_SEC \div 2,
             ORIGIN[2] + MESH_LAT_STEP_SEC}

LonMarks == {ORIGIN[1], ORIGIN[1] + MESH_LON_STEP_SEC \div 2,
             ORIGIN[1] + MESH_LON_STEP_SEC}

DoublesNear(marks) == {Ulps(Nearest(u), n) : u \in marks, n \in (-MaxUlps)..MaxUlps}

CodecCoords == [lat : DoublesNear(LatMarks), lon : DoublesNear(LonMarks)]

CodecInit ==
  /\ db = EmptyDb
  /\ run = [pc |-> "idle", no |-> 0, todo |-> {}, ingested |-> {},
            exitCode |-> 0, err |-> "none"]
  /\ hist = NoHist
  /\ pre = EmptyDb
  /\ env = EnvUnset
  /\ gridIn = GridIdle
  /\ gridOut = [done |-> FALSE, cells |-> <<>>]
  /\ callIn \in [fn : {"meshCode250"}, a : CodecCoords, b : CodecCoords]
  /\ callOut = NoCall
  /\ jobs = <<>>
  /\ lookup = NoLookup

MeshCode250 ==
  /\ callIn.fn = "meshCode250"
  /\ callOut = NoCall
  /\ callOut' = [fn |-> "meshCode250",
                 a |-> meshCode250OfDoubles(callIn.a.lat, callIn.a.lon),
                 b |-> meshCode250OfDoubles(callIn.b.lat, callIn.b.lon),
                 digits |-> meshCodePartsOfDoubles(callIn.a.lat, callIn.a.lon),
                 shown |-> mapViewMeshCode250(callIn.a.lat, callIn.a.lon)]
  /\ UNCHANGED <<db, run, hist, pre, env, gridIn, gridOut, callIn, jobs, lookup>>

CodecNext == MeshCode250

SpecCodec == CodecInit /\ [][CodecNext]_vars

(* the 7.5" x 11.25" cell a coordinate lies in, lower and left edges       *)
(* belonging to the cell                                                   *)
CellOf(c) ==
  <<FloorNear(c.lat.u, Sign(c.lat.d), MESH_LAT_STEP_SEC),
    FloorNear(c.lon.u, Sign(c.lon.d), MESH_LON_STEP_SEC)>>

InsideJapan(c) ==
  /\ JAPAN_BOUNDS[2] < c.lat.u /\ c.lat.u < JAPAN_BOUNDS[4]
  /\ JAPAN_BOUNDS[1] < c.lon.u /\ c.lon.u < JAPAN_BOUNDS[3]

(* C12: meshCode250 returns the same string for two coordinates of the     *)
(* same 7.5" x 11.25" cell and different strings for coordinates of two    *)
(* different cells of the national extent.                                 *)
C12_CodecInjectiveOnCells ==
  (callOut.fn = "meshCode250" /\ InsideJapan(callIn.a) /\ InsideJapan(callIn.b)) =>
    (CellOf(callIn.a) = CellOf(callIn.b) <=> callOut.a = callOut.b)

(* C13: for a coordinate inside the national bounding box meshCode250      *)
(* returns 10 characters: two digits p, two digits q, r and s in 0..7, t   *)
(* and u in 0..9, a half-mesh and a quarter-mesh digit in 1..4.            *)
C13_CodecFormat ==
  (callOut.fn = "meshCode250" /\ InsideJapan(callIn.a)) =>
    /\ Len(callOut.a) = 10
    /\ callOut.a = FormatCode(callOut.digits)
    /\ callOut.digits.p \in 10..99 /\ callOut.digits.q \in 10..99
    /\ callOut.digits.r \in 0..7 /\ callOut.digits.s \in 0..7
    /\ callOut.digits.t \in 0..9 /\ callOut.digits.u \in 0..9
    /\ callOut.digits.half \in 1..4 /\ callOut.digits.quarter \in 1..4

(* the same two statements over the coordinates that are lattice values    *)
(* exactly, in the arithmetic of the reals                                 *)
CodecOnLattice ==
  gridOut.done =>
    /\ \A i, j \in DOMAIN gridOut.cells :
         i # j => gridOut.cells[i].meshId # gridOut.cells[j].meshId
    /\ \A i \in DOMAIN gridOut.cells : Len(gridOut.cells[i].meshId) = 10

(***************************************************************************)
(* buildLineMeshPieces and buildPolygonMeshPieces called on one feature,   *)
(* and toLineItems / toPolygonItems on the list holding that feature.      *)
(*   callIn  = [fn, feature, e]                                            *)
(*   callOut = [fn, pieces, items]                                         *)
(***************************************************************************)
MaxPieceSteps == 2

PieceCorners ==
  {At(10 + 45 * i, 10 + 25 * j) : i \in 0..MaxPieceSteps, j \in 0..MaxPieceSteps}

(* a line along the edge that cells A and C share, then across it *)
LineOnEdge ==
  Feat("LineString", <<<<At(0, 60), At(90, 60), At(100, 50), At(100, 70)>>>>, "lEdge")

(* the line from (139.759, 35.678) to (139.771, 35.688), to 1/8 second *)
LineOfExample ==
  Feat("LineString", <<<<<<4025059, 1027526>>, <<4025405, 1027814>>>>>>, "lEx")

(* a line across the western edge of the national bounding box *)
LineAcrossBounds ==
  Feat("LineString", <<<<<<JAPAN_BOUNDS[1] - 30, ORIGIN[2] + 10>>,
                         <<JAPAN_BOUNDS[1] + 30, ORIGIN[2] + 50>>>>>>, "lAcross")

LineInputs ==
  {Feat("LineString", <<<<a, b>>>>, "l") : a \in PieceCorners, b \in PieceCorners}
  \cup {Feat("MultiLineString", <<<<At(10, 10), At(100, 35)>>, <<a, At(55, 60)>>>>, "ml") :
          a \in PieceCorners}
  \cup {LineOnEdge, LineOfExample, LineAcrossBounds, LineOut, LineACD, LineB}

PolygonOut == Feat("Polygon", <<<<0, 0, 90, 60>>>>, "gOut")

PolygonAcrossBounds ==
  Feat("Polygon", <<<<JAPAN_BOUNDS[1] - 30, ORIGIN[2] + 10,
                      JAPAN_BOUNDS[1] + 30, ORIGIN[2] + 50>>>>, "gAcross")

PolygonInputs ==
  {Feat("Polygon", <<<<q[1][1], q[1][2], q[2][1], q[2][2]>>>>, "g") :
     q \in {c \in PieceCorners \X PieceCorners :
              c[2][1] >= c[1][1] /\ c[2][2] >= c[1][2]}}
  \cup {Feat("MultiPolygon", <<<<a[1], a[2], a[1] + 45, a[2] + 25>>,
                               <<ORIGIN[1] + 95, ORIGIN[2] + 65,
                                 ORIGIN[1] + 120, ORIGIN[2] + 80>>>>, "mg") :
          a \in PieceCorners}
  \cup {PolygonOut, PolygonAcrossBounds, PolyAB}

PieceEnvs == {EnvUnset, EnvNum(2)}

PiecesInit ==
  /\ db = EmptyDb
  /\ run = [pc |-> "idle", no |-> 0, todo |-> {}, ingested |-> {},
            exitCode |-> 0, err |-> "none"]
  /\ hist = NoHist
  /\ pre = EmptyDb
  /\ env = EnvUnset
  /\ gridIn = GridIdle
  /\ gridOut = [done |-> FALSE, cells |-> <<>>]
  /\ \/ callIn \in [fn : {"buildLineMeshPieces"}, feature : LineInputs, e : PieceEnvs]
     \/ callIn \in [fn : {"buildPolygonMeshPieces"}, feature : PolygonInputs,
                    e : PieceEnvs]
  /\ callOut = NoCall
  /\ jobs = <<>>
  /\ lookup = NoLookup

BuildLineMeshPieces ==
  /\ callIn.fn = "buildLineMeshPieces"
  /\ callOut = NoCall
  /\ callOut' = [fn |-> "buildLineMeshPieces",
                 pieces |-> buildLineMeshPieces(callIn.feature.geometry, callIn.e),
                 items |-> toLineItems(<<callIn.feature>>, callIn.e)]
  /\ UNCHANGED <<db, run, hist, pre, env, gridIn, gridOut, callIn, jobs, lookup>>

BuildPolygonMeshPieces ==
  /\ callIn.fn = "buildPolygonMeshPieces"
  /\ callOut = NoCall
  /\ callOut' = [fn |-> "buildPolygonMeshPieces",
                 pieces |-> buildPolygonMeshPieces(callIn.feature.geometry, callIn.e),
                 items |-> toPolygonItems(<<callIn.feature>>, callIn.e)]
  /\ UNCHANGED <<db, run, hist, pre, env, gridIn, gridOut, callIn, jobs, lookup>>

PiecesNext == BuildLineMeshPieces \/ BuildPolygonMeshPieces

SpecPieces == PiecesInit /\ [][PiecesNext]_vars

PiecesBuilt == callOut.fn \in {"buildLineMeshPieces", "buildPolygonMeshPieces"}

(* the feature lies fully inside the national bounding box *)
InsideBounds(bbox) ==
  /\ JAPAN_BOUNDS[1] <= bbox[1] /\ bbox[3] <= JAPAN_BOUNDS[3]
  /\ JAPAN_BOUNDS[2] <= bbox[2] /\ bbox[4] <= JAPAN_BOUNDS[4]

(* the feature has a measure: length(feature) or area(feature) above zero *)
HasMeasure(g) == IF IsLineGeom(g) THEN hasLength(g) ELSE hasArea(g)

RatioSum(pieces) == FracSum([k \in DOMAIN pieces |-> pieces[k].ratio])

(* C14: for every line or polygon feature fully inside the national        *)
(* bounding box, with a measure and with its candidate cell count under    *)
(* the guard, the ratios of the returned pieces sum to 1.                  *)
C14_CoverageConservation ==
  (PiecesBuilt /\ HasMeasure(callIn.feature.geometry)
     /\ InsideBounds(turfBbox(callIn.feature.geometry))
     /\ UnderGuard(turfBbox(callIn.feature.geometry), callIn.e)) =>
    RatioSum(callOut.pieces) = <<1, 1>>

(* the same for polygons, and for the lines whose bbox has an interior   *)
(* and of which no segment runs along a cell edge                          *)
OffEdges(g) ==
  \A sg \in lineSegments(g) :
     /\ sg[1][1] = sg[2][1] => sg[1][1] % MESH_LON_STEP_SEC # 0
     /\ sg[1][2] = sg[2][2] => sg[1][2] % MESH_LAT_STEP_SEC # 0

HasInterior(bbox) == bbox[1] < bbox[3] /\ bbox[2] < bbox[4]

ConservationOffEdges ==
  (PiecesBuilt /\ HasMeasure(callIn.feature.geometry)
     /\ InsideBounds(turfBbox(callIn.feature.geometry))
     /\ UnderGuard(turfBbox(callIn.feature.geometry), callIn.e)
     /\ HasInterior(turfBbox(callIn.feature.geometry))
     /\ (IsLineGeom(callIn.feature.geometry) => OffEdges(callIn.feature.geometry))) =>
    RatioSum(callOut.pieces) = <<1, 1>>

(* the line of the example yields at least two pieces summing to 1 *)
ExampleLineConserved ==
  (PiecesBuilt /\ callIn.feature = LineOfExample /\ callIn.e = EnvUnset) =>
    Len(callOut.pieces) >= 2 /\ RatioSum(callOut.pieces) = <<1, 1>>

(* the feature lies entirely outside the national bounding box *)
OutsideBounds(bbox) == ~IntersectsJapan(bbox)

(* C15: a line or polygon feature whose candidate cell count is under the  *)
(* guard yields zero pieces, and so no item to store, only if it has no    *)
(* measure or lies entirely outside the national bounding box.              *)
C15_ZeroPiecesOnlyIfDegenerate ==
  (PiecesBuilt /\ UnderGuard(turfBbox(callIn.feature.geometry), callIn.e)
     /\ (callOut.pieces = <<>> \/ callOut.items = <<>>)) =>
    \/ ~HasMeasure(callIn.feature.geometry)
    \/ OutsideBounds(turfBbox(callIn.feature.geometry))

(* the same for the features whose bbox has an interior                   *)
ZeroPiecesOffAxes ==
  (PiecesBuilt /\ UnderGuard(turfBbox(callIn.feature.geometry), callIn.e)
     /\ HasInterior(turfBbox(callIn.feature.geometry))
     /\ (callOut.pieces = <<>> \/ callOut.items = <<>>)) =>
    \/ ~HasMeasure(callIn.feature.geometry)
    \/ OutsideBounds(turfBbox(callIn.feature.geometry))

IsRatio(r) == r[2] > 0 /\ 0 <= r[1] /\ r[1] <= r[2]

(* C16: every piece buildLineMeshPieces or buildPolygonMeshPieces returns, *)
(* and every row the pieces give to a mesh-decomposition table, has a      *)
(* ratio r with 0 <= r <= 1.                                               *)
C16_RatioBound ==
  PiecesBuilt =>
    /\ \A k \in DOMAIN callOut.pieces : IsRatio(callOut.pieces[k].ratio)
    /\ \A i \in DOMAIN callOut.items :
         \A r \in Range(MeshRowsOf(FeatureRows({}, "layer", callOut.items),
                                   callOut.items)) : IsRatio(r.ratio)

(* a feature cut into several pieces, one of them a proper part *)
C16_Witness ==
  /\ PiecesBuilt
  /\ Len(callOut.pieces) >= 2
  /\ \E k \in DOMAIN callOut.pieces :
       callOut.pieces[k].ratio[1] > 0
       /\ callOut.pieces[k].ratio[1] < callOut.pieces[k].ratio[2]
  /\ callOut.items # <<>>

(* the rows of line_mesh_map, polygon_mesh_map and of the layers' own      *)
(* mesh-map tables after ingestion                                         *)
StoredRatiosBounded ==
  /\ \A r \in db.lmm \cup db.pmm : IsRatio(r.ratio)
  /\ \A t \in DOMAIN db.dyn :
       \A r \in db.dyn[t].rows : r.ratio # NULL => IsRatio(r.ratio)

(***************************************************************************)
(* processLayer called on one layer definition after another.             *)
(*   callIn  = [fn, def, calls]: the definition of the last call and the   *)
(*             number of calls made                                        *)
(*   callOut = [fn, err]: how the last call ended                          *)
(*   pre     = the store before the last call                              *)
(***************************************************************************)
MaxLayerCalls == 2

PointA2 == Feat("Point", <<At(20, 20)>>, "pA2")
PointOnBounds == Feat("Point", <<<<JAPAN_BOUNDS[3], JAPAN_BOUNDS[4]>>>>, "pEdge")
PointsTwice == Feat("MultiPoint", <<At(10, 10), At(10, 10), At(100, 70)>>, "pTwice")

PointFeatureInputs == {PointA, PointA2, PointsBOut, PointOut, PointOnBounds, PointsTwice}

LayerFeatureLists ==
  {<<f>> : f \in PointFeatureInputs}
  \cup {<<PointA, f>> : f \in {PointA, PointsBOut, PointOut}}
  \cup {<<PointsTwice, PointsBOut>>}
  \cup {<<LineACD>>, <<LineB, LineACD>>, <<PolyAB>>, <<PointA, LineB>>,
        <<PointsBOut, PolyAB>>}

(* a.geojson and A.GEOJSON give the same layer names; the layer of         *)
(* mesh-index.geojson has the name of a table of the schema                *)
LayerInputs ==
  UNION {Range(layerDefsOf(f, fs)) : f \in {F_a, F_A}, fs \in LayerFeatureLists}
  \cup UNION {Range(layerDefsOf(F_mesh_index, fs)) : fs \in {<<PointA>>, <<LineB>>}}

NoDef == [layerName |-> NULL]

LayerInit ==
  /\ db = EmptyDb
  /\ run = [pc |-> "idle", no |-> 0, todo |-> {}, ingested |-> {},
            exitCode |-> 0, err |-> "none"]
  /\ hist = NoHist
  /\ pre = EmptyDb
  /\ env = EnvUnset
  /\ gridIn = GridIdle
  /\ gridOut = [done |-> FALSE, cells |-> <<>>]
  /\ callIn = [fn |-> "processLayer", def |-> NoDef, calls |-> 0]
  /\ callOut = NoCall
  /\ jobs = <<>>
  /\ lookup = NoLookup

ProcessLayer ==
  /\ callIn.fn = "processLayer"
  /\ callIn.calls < MaxLayerCalls
  /\ \E def \in LayerInputs :
       /\ callIn' = [fn |-> "processLayer", def |-> def, calls |-> callIn.calls + 1]
       /\ db' = processLayer(StartState(db, -1), def, env).db
       /\ callOut' = [fn |-> "processLayer",
                      err |-> processLayer(StartState(db, -1), def, env).err]
  /\ pre' = db
  /\ UNCHANGED <<run, hist, env, gridIn, gridOut, jobs, lookup>>

LayerNext == ProcessLayer

SpecLayer == LayerInit /\ [][LayerNext]_vars

(* the last call was for a point layer and ran to its end *)
PointLayerStored ==
  /\ callOut.fn = "processLayer" /\ callOut.err = "none"
  /\ callIn.def.geometryType = "point"

(* the coordinates of the Point and MultiPoint features of a list, as      *)
(* pairs <<feature index, coordinate index>>                               *)
PointSlots(features) ==
  UNION {{<<i, j>> : j \in DOMAIN features[i].geometry.parts} :
           i \in {k \in DOMAIN features :
                    features[k].geometry.type \in {"Point", "MultiPoint"}}}

SlotCoord(features, q) == features[q[1]].geometry.parts[q[2]]

SlotInside(features, q) ==
  /\ JAPAN_BOUNDS[1] <= SlotCoord(features, q)[1]
  /\ SlotCoord(features, q)[1] <= JAPAN_BOUNDS[3]
  /\ JAPAN_BOUNDS[2] <= SlotCoord(features, q)[2]
  /\ SlotCoord(features, q)[2] <= JAPAN_BOUNDS[4]

InsideSlots(features) == {q \in PointSlots(features) : SlotInside(features, q)}

(* C17: after processLayer has stored a point layer, point_features holds  *)
(* for the layer one row per Point and per MultiPoint coordinate inside    *)
(* the national bounding box and no other row, the layer's own table holds *)
(* as many rows, and the mesh identifier of every such row is              *)
(* meshCode250(lat, lon) of its point.                                     *)
C17_PointIngestion ==
  PointLayerStored =>
    /\ Cardinality(LayerRows(db.pf, callIn.def.layerName))
         = Cardinality(InsideSlots(callIn.def.features))
    /\ Cardinality(db.dyn[callIn.def.tableName].rows)
         = Cardinality(InsideSlots(callIn.def.features))
    /\ \A q \in InsideSlots(callIn.def.features) :
         /\ Cardinality({r \in LayerRows(db.pf, callIn.def.layerName) :
               /\ r.geometry = Geom("Point", <<SlotCoord(callIn.def.features, q)>>)
               /\ r.properties = callIn.def.features[q[1]].properties
               /\ r.meshId = meshCode250(SlotCoord(callIn.def.features, q)[2],
                                         SlotCoord(callIn.def.features, q)[1])})
            = Cardinality({p \in InsideSlots(callIn.def.features) :
                 /\ SlotCoord(callIn.def.features, p) = SlotCoord(callIn.def.features, q)
                 /\ callIn.def.features[p[1]].properties
                      = callIn.def.features[q[1]].properties})
         /\ Cardinality({r \in db.dyn[callIn.def.tableName].rows :
               /\ r.properties = callIn.def.features[q[1]].properties
               /\ r.meshId = meshCode250(SlotCoord(callIn.def.features, q)[2],
                                         SlotCoord(callIn.def.features, q)[1])})
            = Cardinality({p \in InsideSlots(callIn.def.features) :
                 /\ meshCode250(SlotCoord(callIn.def.features, p)[2],
                                SlotCoord(callIn.def.features, p)[1])
                      = meshCode250(SlotCoord(callIn.def.features, q)[2],
                                    SlotCoord(callIn.def.features, q)[1])
                 /\ callIn.def.features[p[1]].properties
                      = callIn.def.features[q[1]].properties})

(* a layer holding a MultiPoint with a point inside and a point outside    *)
(* the national bounding box, stored over an earlier registration          *)
C17_Witness ==
  /\ PointLayerStored
  /\ callIn.calls = 2
  /\ InsideSlots(callIn.def.features) # {}
  /\ InsideSlots(callIn.def.features) # PointSlots(callIn.def.features)
  /\ \E f \in Range(callIn.def.features) : f.geometry.type = "MultiPoint"
  /\ LayerRows(db.pf, callIn.def.layerName) # {}

(***************************************************************************)
(* refreshMeshFlags, addLayerPresence and removeLayerPresence called twice *)
(* with the same arguments, on a store as processLayer leaves it after     *)
(* any number of its statements.                                           *)
(*   callIn  = [fn, layerName, meshIds]                                    *)
(*   callOut = [fn, applied, before, once]: the number of calls made, the  *)
(*             store before the first call and after it                    *)
(***************************************************************************)
PresenceDefs ==
  UNION {Range(layerDefsOf(F_a, fs)) :
           fs \in {<<PointA, LineB>>, <<LineACD>>, <<PointsBOut, PolyAB>>}}

(* the store after a.geojson was ingested with a point and a line *)
PresenceBase == ingestFile(StartState(EmptyDb, -1), F_a, FC(<<PointA, LineACD>>), EnvUnset).db

StoresDuring(def) ==
  {processLayer(StartState(PresenceBase, k), def, EnvUnset).db :
     k \in (-1)..processLayer(StartState(PresenceBase, -1), def, EnvUnset).n}

PresenceStores == UNION {StoresDuring(def) : def \in PresenceDefs} \cup {EmptyDb}

PresenceLayers == {def.layerName : def \in PresenceDefs} \cup {"zz"}

PresenceMeshes ==
  {meshCode250(ORIGIN[2] + 10, ORIGIN[1] + 10),
   meshCode250(ORIGIN[2] + 70, ORIGIN[1] + 100),
   meshCode250(ORIGIN[2] + 10, ORIGIN[1] + 280)}

PresenceInit ==
  /\ db \in PresenceStores
  /\ run = [pc |-> "idle", no |-> 0, todo |-> {}, ingested |-> {},
            exitCode |-> 0, err |-> "none"]
  /\ hist = NoHist
  /\ pre = EmptyDb
  /\ env = EnvUnset
  /\ gridIn = GridIdle
  /\ gridOut = [done |-> FALSE, cells |-> <<>>]
  /\ callIn \in [fn : {"refreshMeshFlags", "addLayerPresence", "removeLayerPresence"},
                 layerName : PresenceLayers, meshIds : SUBSET PresenceMeshes]
  /\ callOut = [fn |-> "none", applied |-> 0, before |-> EmptyDb, once |-> EmptyDb]
  /\ jobs = <<>>
  /\ lookup = NoLookup

Applied(d) ==
  [fn |-> callIn.fn, applied |-> callOut.applied + 1,
   before |-> IF callOut.applied = 0 THEN db ELSE callOut.before,
   once |-> IF callOut.applied = 0 THEN d ELSE callOut.once]

RefreshMeshFlags ==
  /\ callIn.fn = "refreshMeshFlags"
  /\ callOut.applied < 2
  /\ db' = refreshMeshFlags(StartState(db, -1), callIn.meshIds).db
  /\ callOut' = Applied(db')
  /\ UNCHANGED <<run, hist, pre, env, gridIn, gridOut, callIn, jobs, lookup>>

AddLayerPresence ==
  /\ callIn.fn = "addLayerPresence"
  /\ callOut.applied < 2
  /\ db' = addLayerPresence(StartState(db, -1), callIn.layerName, callIn.meshIds).db
  /\ callOut' = Applied(db')
  /\ UNCHANGED <<run, hist, pre, env, gridIn, gridOut, callIn, jobs, lookup>>

RemoveLayerPresence ==
  /\ callIn.fn = "removeLayerPresence"
  /\ callOut.applied < 2
  /\ db' = removeLayerPresence(StartState(db, -1), callIn.layerName, callIn.meshIds).db
  /\ callOut' = Applied(db')
  /\ UNCHANGED <<run, hist, pre, env, gridIn, gridOut, callIn, jobs, lookup>>

PresenceNext == RefreshMeshFlags \/ AddLayerPresence \/ RemoveLayerPresence

SpecPresence == PresenceInit /\ [][PresenceNext]_vars

(* C18: refreshMeshFlags, addLayerPresence or removeLayerPresence called a *)
(* second time with the same arguments, no row having changed in between,  *)
(* leaves mesh_index, and the whole store, as the first call left it.      *)
C18_PresenceIdempotent ==
  (callOut.fn \in {"refreshMeshFlags", "addLayerPresence", "removeLayerPresence"}
     /\ callOut.applied = 2) =>
    db = callOut.once

(* refreshMeshFlags called twice where the first call changed a flag; the *)
(* same for the two others                                                *)
C18_Witness ==
  /\ callOut.fn = "refreshMeshFlags" /\ callOut.applied = 2
  /\ callOut.before.idx # callOut.once.idx

AddedTwice ==
  /\ callOut.fn = "addLayerPresence" /\ callOut.applied = 2
  /\ callOut.before.idx # callOut.once.idx

RemovedTwice ==
  /\ callOut.fn = "removeLayerPresence" /\ callOut.applied = 2
  /\ callOut.before.idx # callOut.once.idx

(***************************************************************************)
(* processLayer one awaited call at a time.  No statement of it runs in a  *)
(* transaction, so another client of the store may act between any two.    *)
(* A job is [def, pc, existing, ids, meshIds, err, regBefore, regAfter]:   *)
(* pc names the call it makes next, existing, ids and meshIds are the      *)
(* values of existingLayer, oldMeshIds and newMeshIds, regBefore and       *)
(* regAfter are layer_registry around its own registration.                *)
(***************************************************************************)
NewJob(def) ==
  [def |-> def, pc |-> "select", existing |-> {}, ids |-> {}, meshIds |-> {},
   err |-> "none", regBefore |-> {}, regAfter |-> {}]

Moved(j, pc, s) ==
  IF s.err = "none" THEN [j EXCEPT !.pc = pc]
  ELSE [j EXCEPT !.pc = "failed", !.err = s.err]

After(j, pc, s) == [db |-> s.db, job |-> Moved(j, pc, s)]

JobStep(j, s, e) ==
  CASE j.pc = "select" ->
         [db |-> s.db,
          job |-> [Moved(j, "getLayerMeshIds", SelectRegistry(s))
                     EXCEPT !.existing = ExistingLayer(s.db, j.def.layerName)]]
    [] j.pc = "getLayerMeshIds" ->
         [db |-> s.db,
          job |-> [Moved(j, "deleteGenericRows", OldMeshIds(s, j.existing).s)
                     EXCEPT !.ids = OldMeshIds(s, j.existing).ids]]
    [] j.pc = "deleteGenericRows" ->
         After(j, "deleteLayerTables", deleteGenericRows(s, j.def.layerName))
    [] j.pc = "deleteLayerTables" ->
         After(j, "dropTable", deleteLayerTables(s, j.def))
    [] j.pc = "dropTable" ->
         After(j, "ensureLayerTables", DropPrevious(s, j.def, j.existing))
    [] j.pc = "ensureLayerTables" ->
         After(j, "processGeometry", ensureLayerTables(s, j.def))
    [] j.pc = "processGeometry" ->
         [db |-> StoreLayer(s, j.def, e).s.db,
          job |-> [Moved(j, "removeLayerPresence", StoreLayer(s, j.def, e).s)
                     EXCEPT !.meshIds = StoreLayer(s, j.def, e).meshIds]]
    [] j.pc = "removeLayerPresence" ->
         After(j, "addLayerPresence", removeLayerPresence(s, j.def.layerName, j.ids))
    [] j.pc = "addLayerPresence" ->
         After(j, "refreshMeshFlags", addLayerPresence(s, j.def.layerName, j.meshIds))
    [] j.pc = "refreshMeshFlags" ->
         After(j, "register", refreshMeshFlags(s, j.ids \cup j.meshIds))
    [] j.pc = "register" ->
         [db |-> RegisterLayer(s, j.def).db,
          job |-> [Moved(j, "done", RegisterLayer(s, j.def))
                     EXCEPT !.regBefore = s.db.reg,
                            !.regAfter = RegisterLayer(s, j.def).db.reg]]

StepJob(i) ==
  /\ jobs[i].pc \notin {"done", "failed"}
  /\ db' = JobStep(jobs[i], StartState(db, -1), env).db
  /\ jobs' = [jobs EXCEPT ![i] = JobStep(jobs[i], StartState(db, -1), env).job]

(***************************************************************************)
(* Two runs that process a layer of the same name at the same time.        *)
(***************************************************************************)
RaceDefs ==
  UNION {Range(layerDefsOf(f, fs)) : f \in {F_a, F_A}, fs \in {<<PointA>>, <<LineB>>}}

RaceInit ==
  /\ db \in {EmptyDb,
             ingestFile(StartState(EmptyDb, -1), F_a, FC(<<PointA>>), EnvUnset).db}
  /\ run = [pc |-> "idle", no |-> 0, todo |-> {}, ingested |-> {},
            exitCode |-> 0, err |-> "none"]
  /\ hist = NoHist
  /\ pre = EmptyDb
  /\ env = EnvUnset
  /\ gridIn = GridIdle
  /\ gridOut = [done |-> FALSE, cells |-> <<>>]
  /\ callIn = NoCall
  /\ callOut = NoCall
  /\ jobs \in {<<NewJob(d1), NewJob(d2)>> : d1 \in RaceDefs, d2 \in RaceDefs}
  /\ lookup = NoLookup

ProcessLayerStep ==
  /\ \E i \in DOMAIN jobs : StepJob(i)
  /\ UNCHANGED <<run, hist, pre, env, gridIn, gridOut, callIn, callOut, lookup>>

RaceNext == ProcessLayerStep

SpecRace == RaceInit /\ [][RaceNext]_vars

RegistryUnique(d) ==
  \A r1 \in d.reg : \A r2 \in d.reg : r1.layerName = r2.layerName => r1 = r2

(* the registration of job j changed nothing but the row of its layer, and *)
(* added a row only if the layer had none                                  *)
RegisteredInPlace(j) ==
  /\ {r \in j.regAfter : r.layerName = j.def.layerName} = {RegistryRow(j.def)}
  /\ {r \in j.regAfter : r.layerName # j.def.layerName}
       = {r \in j.regBefore : r.layerName # j.def.layerName}
  /\ (\E r \in j.regBefore : r.layerName = j.def.layerName)
       => Cardinality(j.regAfter) = Cardinality(j.regBefore)

(* C19: layer_registry holds at most one row per layerName, also while two *)
(* runs register the same layer at the same time, and registering a layer  *)
(* that has a row sets tableName, geometryType, meshMapTable and           *)
(* sourceFile of that row without adding one.                              *)
C19_RegistryUnique ==
  /\ RegistryUnique(db)
  /\ \A i \in DOMAIN jobs : jobs[i].pc = "done" => RegisteredInPlace(jobs[i])

(* two runs that both found the layer unregistered, with different files   *)
(* and geometry types, have both registered it                             *)
C19_Witness ==
  /\ Len(jobs) = 2
  /\ jobs[1].pc = "done" /\ jobs[2].pc = "done"
  /\ jobs[1].existing = {} /\ jobs[2].existing = {}
  /\ jobs[1].def.layerName = jobs[2].def.layerName
  /\ jobs[1].def.sourceFile # jobs[2].def.sourceFile
  /\ jobs[1].def.geometryType # jobs[2].def.geometryType
  /\ \E i \in 1..2 : jobs[i].regBefore # {}

(***************************************************************************)
(* POST /lookup while a layer is ingested again.  The handler awaits one   *)
(* query after another, outside any transaction:                          *)
(*   lookup = [pc, meshIds, meshRows, todo, layers, status, started]       *)
(* meshRows is the answer of the mesh_index query, todo the registry rows  *)
(* still to be served, layers the rows read per layer name, started the    *)
(* position of the ingestion at the first query.                           *)
(***************************************************************************)
NewLookup(meshIds) ==
  [pc |-> "meshIndex", meshIds |-> meshIds, meshRows |-> EmptyFn, todo |-> {},
   layers |-> EmptyFn, status |-> 0, started |-> "none"]

(* SELECT id, mesh_id, geometry, properties [, length or area columns]     *)
(* FROM "name": [ok, rows]                                                 *)
LookupRows(d, name, geometryType) ==
  IF IsDyn(d, name)
  THEN [ok |-> geometryType = "point" \/ d.dyn[name].cols = geometryType,
        rows |-> d.dyn[name].rows]
  ELSE IF ~HasFixed(d, name) THEN [ok |-> FALSE, rows |-> {}]
  ELSE CASE name = "point_features" -> [ok |-> geometryType = "point", rows |-> d.pf]
         [] name = "line_features" -> [ok |-> geometryType = "point", rows |-> d.lf]
         [] name = "polygon_features" -> [ok |-> geometryType = "point", rows |-> d.gf]
         [] name = "line_mesh_map" -> [ok |-> geometryType # "polygon", rows |-> d.lmm]
         [] name = "polygon_mesh_map" -> [ok |-> geometryType # "line", rows |-> d.pmm]
         [] OTHER -> [ok |-> FALSE, rows |-> {}]

(* the table the handler reads for a registry row; NULL when it reads none *)
LookupTable(layer) ==
  IF layer.geometryType = "point" THEN layer.tableName
  ELSE IF layer.meshMapTable # NULL THEN layer.meshMapTable
  ELSE NULL

(* what the response holds of a row *)
Shown(rows, meshIds) ==
  {[meshId |-> r.meshId, properties |-> r.properties, ratio |-> r.ratio] :
     r \in {x \in rows : x.meshId \in meshIds}}

LookupMeshIndex ==
  /\ lookup.pc = "meshIndex"
  /\ lookup' = [lookup EXCEPT
                  !.pc = "registry",
                  !.started = IF jobs = <<>> THEN "alone" ELSE jobs[1].pc,
                  !.meshRows = [m \in lookup.meshIds \cap DOMAIN db.idx |-> db.idx[m]]]
  /\ UNCHANGED <<db, run, hist, pre, env, gridIn, gridOut, callIn, callOut, jobs>>

LookupRegistry ==
  /\ lookup.pc = "registry"
  /\ lookup' = [lookup EXCEPT
                  !.pc = IF db.reg = {} THEN "done" ELSE "layers",
                  !.status = IF db.reg = {} THEN 200 ELSE 0,
                  !.todo = db.reg]
  /\ UNCHANGED <<db, run, hist, pre, env, gridIn, gridOut, callIn, callOut, jobs>>

Served(layer, rows) ==
  [lookup EXCEPT
     !.todo = @ \ {layer},
     !.pc = IF lookup.todo = {layer} THEN "done" ELSE "layers",
     !.status = IF lookup.todo = {layer} THEN 200 ELSE 0,
     !.layers = IF rows = {} THEN @
                ELSE [n \in DOMAIN @ \cup {layer.layerName} |->
                        IF n = layer.layerName THEN rows ELSE @[n]]]

LookupLayer ==
  /\ lookup.pc = "layers"
  /\ \E layer \in lookup.todo :
       lookup' =
         IF LookupTable(layer) = NULL THEN Served(layer, {})
         ELSE IF ~LookupRows(db, LookupTable(layer), layer.geometryType).ok
         THEN [lookup EXCEPT !.pc = "done", !.status = 500]
         ELSE Served(layer,
                     Shown(LookupRows(db, LookupTable(layer), layer.geometryType).rows,
                           lookup.meshIds))
  /\ UNCHANGED <<db, run, hist, pre, env, gridIn, gridOut, callIn, callOut, jobs>>

(* a.geojson was ingested, and is ingested again with the same or with     *)
(* other content while the request is served                               *)
LookupContents == {<<PointA, PointA2>>, <<PointA>>, <<LineACD>>, <<LineB>>}

LookupInit ==
  /\ \E fs \in LookupContents :
       /\ db = ingestFile(StartState(EmptyDb, -1), F_a, FC(fs), EnvUnset).db
       /\ pre = db
  /\ run = [pc |-> "idle", no |-> 0, todo |-> {}, ingested |-> {},
            exitCode |-> 0, err |-> "none"]
  /\ hist = NoHist
  /\ env = EnvUnset
  /\ gridIn = GridIdle
  /\ gridOut = [done |-> FALSE, cells |-> <<>>]
  /\ callIn = NoCall
  /\ callOut = NoCall
  /\ jobs \in {<<NewJob(layerDefsOf(F_a, fs)[1])>> : fs \in LookupContents}
  /\ lookup \in {NewLookup(ms) : ms \in {PresenceMeshes,
                                         {meshCode250(ORIGIN[2] + 10, ORIGIN[1] + 10)}}}

IngestStep ==
  /\ StepJob(1)
  /\ UNCHANGED <<run, hist, pre, env, gridIn, gridOut, callIn, callOut, lookup>>

LookupNext == IngestStep \/ LookupMeshIndex \/ LookupRegistry \/ LookupLayer

SpecLookup == LookupInit /\ [][LookupNext]_vars

(* the rows of layer name as the response shows them when every query is  *)
(* answered from store d                                                   *)
LayerShown(d, name, meshIds) ==
  UNION {Shown(LookupRows(d, LookupTable(r), r.geometryType).rows, meshIds) :
           r \in {x \in d.reg : x.layerName = name}}

Observed(name) == IF name \in DOMAIN lookup.layers THEN lookup.layers[name] ELSE {}

(* the store once the ingestion in progress has run to its end, alone *)
StoreAfter == processLayer(StartState(pre, -1), jobs[1].def, env).db

(* the presence the response shows agrees with the rows it shows *)
PresenceAgrees ==
  \A m \in DOMAIN lookup.meshRows :
    \A name \in {r.layerName : r \in pre.reg \cup StoreAfter.reg} :
      (name \in lookup.meshRows[m].layerPresence)
        <=> (\E r \in Observed(name) : r.meshId = m)

(* C20: a lookup served while a layer is ingested again answers, and shows *)
(* for that layer all its rows from before the ingestion or all its rows   *)
(* from after it, with presence that agrees with the rows shown.           *)
C20_QueryIsolation ==
  (lookup.pc = "done" /\ Len(jobs) = 1) =>
    /\ lookup.status = 200
    /\ \/ Observed(jobs[1].def.layerName)
            = LayerShown(pre, jobs[1].def.layerName, lookup.meshIds)
       \/ Observed(jobs[1].def.layerName)
            = LayerShown(StoreAfter, jobs[1].def.layerName, lookup.meshIds)
    /\ PresenceAgrees

(* the same for a lookup served before the ingestion starts or after it    *)
(* has ended                                                               *)
LookupApart ==
  (lookup.pc = "done" /\ Len(jobs) = 1) =>
    /\ jobs[1].pc = "select" =>
         /\ lookup.status = 200 /\ PresenceAgrees
         /\ Observed(jobs[1].def.layerName)
              = LayerShown(pre, jobs[1].def.layerName, lookup.meshIds)
    /\ (jobs[1].pc = "done" /\ lookup.started = "done") =>
         /\ lookup.status = 200 /\ PresenceAgrees
         /\ Observed(jobs[1].def.layerName)
              = LayerShown(StoreAfter, jobs[1].def.layerName, lookup.meshIds)

(* taking processLayer one call at a time gives what it gives as a whole *)
StepsAgree ==
  (Len(jobs) = 1 /\ jobs[1].pc = "done" /\ lookup.pc # "none") => db = StoreAfter

(***************************************************************************)
(* ingestFile one statement at a time.  Every awaited query of ingestFile, *)
(* removeLayer and processLayer is one step; between two steps of a run    *)
(* another run may act on the store.                                       *)
(*   A statement is [op, def, arg]: def is the layer definition (or the    *)
(*   registry row of a stale layer) it belongs to.                         *)
(*   A file job is [file, raw, pc, todo, existing, ids, inserted, err]:    *)
(*   todo holds the statements still to be issued, existing and ids are    *)
(*   the values of existingLayer and oldMeshIds of the layer in progress,  *)
(*   inserted the rows the last INSERT ... RETURNING id gave back.         *)
(***************************************************************************)
St(op, def, arg) == [op |-> op, def |-> def, arg |-> arg]

StmtsOfChunks(op, def, chunks) == [i \in DOMAIN chunks |-> St(op, def, chunks[i])]

(* the statements of insertRowsDynamic(tableName, cols, rows) *)
DynamicStmts(def, tableName, cols, rows) ==
  [i \in DOMAIN chunkArray(rows, INSERT_CHUNK_SIZE) |->
     St("insertRowsDynamic", def,
        [tableName |-> tableName, cols |-> cols,
         chunk |-> chunkArray(rows, INSERT_CHUNK_SIZE)[i]])]

upsertMeshIndexStmts(def, meshIds) ==
  StmtsOfChunks("upsertMeshIndex", def, chunkArray(meshIds, INSERT_CHUNK_SIZE))

processPointLayerStmts(def, rows) ==
  upsertMeshIndexStmts(def, PointMeshIds(rows))
  \o DynamicStmts(def, def.tableName, "base", rows)
  \o StmtsOfChunks("insertPoints", def, chunkArray(rows, INSERT_CHUNK_SIZE))

(* the number of pieces of a chunk of items: the length of genericMeshRows *)
PieceCount(chunk) == Len(Flatten([i \in DOMAIN chunk |-> chunk[i].pieces]))

(* one chunk of items: INSERT ... RETURNING id, the generic mesh rows in    *)
(* chunks, the layer's own mesh rows in chunks                              *)
ItemChunkStmts(def, chunk) ==
  <<St("insertFeatures", def, chunk)>>
  \o [k \in 1..CeilDiv(PieceCount(chunk), INSERT_CHUNK_SIZE) |->
        St("insertMeshMap", def, [chunk |-> chunk, k |-> k])]
  \o [k \in 1..CeilDiv(PieceCount(chunk), INSERT_CHUNK_SIZE) |->
        St("insertLayerMeshMap", def, [chunk |-> chunk, k |-> k])]

processItemsStmts(def, items) ==
  upsertMeshIndexStmts(def, MeshIndexIds(items))
  \o DynamicStmts(def, def.tableName, "base", items)
  \o Flatten([i \in DOMAIN chunkArray(items, INSERT_CHUNK_SIZE) |->
                ItemChunkStmts(def, chunkArray(items, INSERT_CHUNK_SIZE)[i])])

(* [stmts, meshIds]: the statements of process<Kind>Layer and what it returns *)
StoreLayerStmts(def, e) ==
  IF def.geometryType = "point"
  THEN [stmts |-> processPointLayerStmts(def, PointRows(KeptPoints(def.features))),
        meshIds |-> MeshIdsOf(PointRows(KeptPoints(def.features)))]
  ELSE IF def.meshMapTable = NULL THEN [stmts |-> <<>>, meshIds |-> {}]
  ELSE IF def.geometryType = "line"
  THEN [stmts |-> processItemsStmts(def, toLineItems(def.features, e)),
        meshIds |-> PieceMeshIds(toLineItems(def.features, e))]
  ELSE [stmts |-> processItemsStmts(def, toPolygonItems(def.features, e)),
        meshIds |-> PieceMeshIds(toPolygonItems(def.features, e))]

deleteGenericRowsStmts(def) ==
  <<St("deletePointRows", def, 0), St("deleteLineRows", def, 0),
    St("deletePolygonRows", def, 0), St("deleteLineMeshRows", def, 0),
    St("deletePolygonMeshRows", def, 0)>>

ensureLayerTablesStmts(def) ==
  <<St("createTable", def, [tableName |-> def.tableName, cols |-> "base"])>>
  \o (IF def.geometryType \in {"line", "polygon"} /\ def.meshMapTable # NULL
      THEN <<St("createTable", def,
                [tableName |-> def.meshMapTable, cols |-> def.geometryType])>>
      ELSE <<>>)

processLayerStmts(def, e) ==
  <<St("selectExisting", def, 0), St("getLayerMeshIds", def, 0)>>
  \o deleteGenericRowsStmts(def)
  \o <<St("deleteFrom", def, def.tableName), St("deleteFrom", def, def.meshMapTable),
       St("dropPrevious", def, 0)>>
  \o ensureLayerTablesStmts(def)
  \o StoreLayerStmts(def, e).stmts
  \o <<St("removeLayerPresence", def, 0),
       St("addLayerPresence", def, StoreLayerStmts(def, e).meshIds),
       St("refreshMeshFlags", def, StoreLayerStmts(def, e).meshIds),
       St("register", def, 0)>>

removeLayerStmts(layerRow) ==
  <<St("getStaleMeshIds", layerRow, 0)>>
  \o deleteGenericRowsStmts(layerRow)
  \o (IF layerRow.meshMapTable # NULL
      THEN <<St("dropTable", layerRow, layerRow.meshMapTable)>> ELSE <<>>)
  \o <<St("dropTable", layerRow, layerRow.tableName),
       St("deleteRegistryRow", layerRow, 0),
       St("removeLayerPresence", layerRow, 0),
       St("refreshMeshFlags", layerRow, {})>>

(* the statements of ingestFile after its query on layer_registry *)
ingestFileStmts(d, fileName, layerDefs, e) ==
  Flatten([i \in DOMAIN SetToSeq(StaleLayers(d, fileName, layerDefs)) |->
             removeLayerStmts(SetToSeq(StaleLayers(d, fileName, layerDefs))[i])])
  \o Flatten([i \in DOMAIN layerDefs |-> processLayerStmts(layerDefs[i], e)])

NewFileJob(fileName, raw) ==
  [file |-> fileName, raw |-> raw, pc |-> "start", todo |-> <<>>,
   existing |-> {}, ids |-> {}, inserted |-> <<>>, err |-> "none"]

DefsOfJob(j) ==
  IF j.raw.kind = "json" /\ toFeatureCollection(j.raw).ok
  THEN layerDefsOf(j.file, toFeatureCollection(j.raw).features)
  ELSE <<>>

(* the k-th chunk of the mesh rows of a chunk of items *)
MeshRowChunk(inserted, arg) ==
  chunkArray(MeshRowsOf(inserted, arg.chunk), INSERT_CHUNK_SIZE)[arg.k]

KindTable(d, def) == FeatureTable(d, def.geometryType)

(* the run state after statement st of job j is issued in run state s *)
ExecStore(st, s, j) ==
  CASE st.op = "selectExisting" -> SelectRegistry(s)
    [] st.op = "getLayerMeshIds" -> OldMeshIds(s, j.existing).s
    [] st.op = "getStaleMeshIds" ->
         getLayerMeshIds(s, st.def.tableName, st.def.meshMapTable).s
    [] st.op = "deletePointRows" -> DeletePointRows(s, st.def.layerName)
    [] st.op = "deleteLineRows" -> DeleteLineRows(s, st.def.layerName)
    [] st.op = "deletePolygonRows" -> DeletePolygonRows(s, st.def.layerName)
    [] st.op = "deleteLineMeshRows" -> DeleteLineMeshRows(s, st.def.layerName)
    [] st.op = "deletePolygonMeshRows" -> DeletePolygonMeshRows(s, st.def.layerName)
    [] st.op = "deleteFrom" -> DeleteFromIfExists(s, st.arg)
    [] st.op = "dropPrevious" -> DropPrevious(s, st.def, j.existing)
    [] st.op = "dropTable" -> dropTable(s, st.arg)
    [] st.op = "createTable" -> CreateTable(s, st.arg.tableName, st.arg.cols)
    [] st.op = "upsertMeshIndex" -> UpsertChunk(s, st.arg)
    [] st.op = "insertRowsDynamic" ->
         InsertDynamic(s, st.arg.tableName, st.arg.cols, st.arg.chunk)
    [] st.op = "insertPoints" ->
         InsertPoints(s, FeatureRows(s.db.pf, st.def.layerName, st.arg))
    [] st.op = "insertFeatures" ->
         InsertFeatures(s, st.def.geometryType,
                        FeatureRows(KindTable(s.db, st.def), st.def.layerName, st.arg))
    [] st.op = "insertMeshMap" ->
         InsertMeshMap(s, st.def.geometryType, st.def.layerName,
                       MeshRowChunk(j.inserted, st.arg))
    [] st.op = "insertLayerMeshMap" ->
         InsertDynamic(s, st.def.meshMapTable, st.def.geometryType,
                       MeshRowChunk(j.inserted, st.arg))
    [] st.op = "removeLayerPresence" ->
         removeLayerPresence(s, st.def.layerName, j.ids)
    [] st.op = "addLayerPresence" -> addLayerPresence(s, st.def.layerName, st.arg)
    [] st.op = "refreshMeshFlags" -> refreshMeshFlags(s, j.ids \cup st.arg)
    [] st.op = "register" -> RegisterLayer(s, st.def)
    [] st.op = "deleteRegistryRow" -> DeleteRegistryRow(s, st.def.layerName)

(* what the statement leaves in the variables of the run *)
ExecLocals(st, s, j) ==
  CASE st.op = "selectExisting" ->
         [j EXCEPT !.existing = ExistingLayer(s.db, st.def.layerName),
                   !.ids = {}, !.inserted = <<>>]
    [] st.op = "getLayerMeshIds" -> [j EXCEPT !.ids = OldMeshIds(s, j.existing).ids]
    [] st.op = "getStaleMeshIds" ->
         [j EXCEPT !.ids = getLayerMeshIds(s, st.def.tableName,
                                           st.def.meshMapTable).ids,
                   !.existing = {}, !.inserted = <<>>]
    [] st.op = "insertFeatures" ->
         [j EXCEPT !.inserted = FeatureRows(KindTable(s.db, st.def),
                                            st.def.layerName, st.arg)]
    [] OTHER -> j

Issued(j, after) ==
  IF after.err # "none" THEN [j EXCEPT !.pc = "failed", !.err = after.err]
  ELSE [j EXCEPT !.todo = Tail(@), !.pc = IF Len(j.todo) = 1 THEN "done" ELSE "run"]

(* readFile, JSON.parse, the grouping and the query on layer_registry *)
StartFileJob(j, s, e) ==
  IF j.raw.kind # "json" \/ ~toFeatureCollection(j.raw).ok
  THEN [j EXCEPT !.pc = "failed", !.err = "input"]
  ELSE IF DefsOfJob(j) = <<>> THEN [j EXCEPT !.pc = "done"]
  ELSE IF SelectRegistry(s).err # "none"
  THEN [j EXCEPT !.pc = "failed", !.err = "store"]
  ELSE [j EXCEPT !.pc = "run",
                 !.todo = ingestFileStmts(s.db, j.file, DefsOfJob(j), e)]

(* [db, job] after the next step of job j on store s.db *)
FileJobStep(j, s, e) ==
  IF j.pc = "start" THEN [db |-> s.db, job |-> StartFileJob(j, s, e)]
  ELSE [db |-> ExecStore(Head(j.todo), s, j).db,
        job |-> Issued(ExecLocals(Head(j.todo), s, j),
                       ExecStore(Head(j.todo), s, j))]

StepFileJob(i) ==
  /\ jobs[i].pc \in {"start", "run"}
  /\ db' = FileJobStep(jobs[i], StartState(db, -1), env).db
  /\ jobs' = [jobs EXCEPT ![i] = FileJobStep(jobs[i], StartState(db, -1), env).job]

(* a job run on its own from store d to its end *)
RECURSIVE RunAlone(_, _, _)
RunAlone(j, d, e) ==
  IF j.pc \notin {"start", "run"} THEN [db |-> d, job |-> j]
  ELSE RunAlone(FileJobStep(j, StartState(d, -1), e).job,
                FileJobStep(j, StartState(d, -1), e).db, e)

(***************************************************************************)
(* Two ingestFile runs at the same time, on files that derive different    *)
(* layer names and touch disjoint meshes.  pre is the store both start     *)
(* from.                                                                   *)
(***************************************************************************)
F_b == <<"b">> \o GEOJSON_EXT

(* the meshes the features of a file touch: the kept points' meshes and    *)
(* the pieces' meshes                                                      *)
TouchedBy(fileName, raw, e) ==
  UNION {StoreLayerStmts(def, e).meshIds
           : def \in Range(layerDefsOf(fileName, toFeatureCollection(raw).features))}

LayerNamesOf(fileName, raw) ==
  {def.layerName : def \in Range(layerDefsOf(fileName, toFeatureCollection(raw).features))}

Independent(f1, raw1, f2, raw2, e) ==
  /\ LayerNamesOf(f1, raw1) \cap LayerNamesOf(f2, raw2) = {}
  /\ TouchedBy(f1, raw1, e) \cap TouchedBy(f2, raw2, e) = {}

IngestedFrom(d, fileName, raw) == ingestFile(StartState(d, -1), fileName, raw, EnvUnset).db

ParallelBases ==
  {EmptyDb,
   IngestedFrom(EmptyDb, F_a, FC(<<PointA, LineB>>)),
   IngestedFrom(IngestedFrom(EmptyDb, F_a, FC(<<LineB>>)), F_b, FC(<<PointA>>))}

ParallelPairs ==
  {p \in ({F_a} \X {FC(<<PointA>>), FC(<<PointA, LineACD>>), FC(<<LineACD>>)})
         \X (({F_b} \X {FC(<<LineB>>), FC(<<PointsBOut>>), FC(<<PointsBOut, LineB>>)})
             \cup ({F_line} \X {FC(<<LineOut>>)})) :
     Independent(p[1][1], p[1][2], p[2][1], p[2][2], EnvUnset)}

ParallelInit ==
  /\ db \in ParallelBases
  /\ pre = db
  /\ run = [pc |-> "idle", no |-> 0, todo |-> {}, ingested |-> {},
            exitCode |-> 0, err |-> "none"]
  /\ hist = NoHist
  /\ env = EnvUnset
  /\ gridIn = GridIdle
  /\ gridOut = [done |-> FALSE, cells |-> <<>>]
  /\ callIn = NoCall
  /\ callOut = NoCall
  /\ jobs \in {<<NewFileJob(p[1][1], p[1][2]), NewFileJob(p[2][1], p[2][2])>>
                 : p \in ParallelPairs}
  /\ lookup = NoLookup

IngestFileStep ==
  /\ \E i \in DOMAIN jobs : StepFileJob(i)
  /\ UNCHANGED <<run, hist, pre, env, gridIn, gridOut, callIn, callOut, lookup>>

ParallelNext == IngestFileStep

SpecParallel == ParallelInit /\ [][ParallelNext]_vars

(* a store without its generated ids: the rows of each generic table with  *)
(* their number, a mesh row with the feature row it references, the rows   *)
(* of each dynamic table with their number, the registry, the mesh index   *)
Unkeyed(rows) ==
  [n |-> Cardinality(rows),
   rows |-> {[sourceLayer |-> r.sourceLayer, meshId |-> r.meshId,
              geometry |-> r.geometry, properties |-> r.properties] : r \in rows}]

Parent(features, ref) ==
  {[sourceLayer |-> f.sourceLayer, meshId |-> f.meshId, geometry |-> f.geometry]
     : f \in {x \in features : x.id = ref}}

UnkeyedMesh(rows, features) ==
  [n |-> Cardinality(rows),
   rows |-> {[sourceLayer |-> r.sourceLayer, meshId |-> r.meshId,
              properties |-> r.properties, ratio |-> r.ratio,
              parent |-> Parent(features, r.ref)] : r \in rows}]

UnkeyedDyn(t) ==
  [cols |-> t.cols, n |-> Cardinality(t.rows),
   rows |-> {[meshId |-> r.meshId, properties |-> r.properties, ratio |-> r.ratio]
               : r \in t.rows}]

Contents(d) ==
  [pf |-> Unkeyed(d.pf), lf |-> Unkeyed(d.lf), gf |-> Unkeyed(d.gf),
   lmm |-> UnkeyedMesh(d.lmm, d.lf), pmm |-> UnkeyedMesh(d.pmm, d.gf),
   dyn |-> [t \in DOMAIN d.dyn |-> UnkeyedDyn(d.dyn[t])],
   reg |-> d.reg, idx |-> d.idx, dropped |-> d.dropped]

BothEnded == Len(jobs) = 2 /\ \A i \in 1..2 : jobs[i].pc \in {"done", "failed"}

(* the store after job i, then job k, each run alone *)
OneAfterTheOther(i, k) ==
  IngestedFrom(IngestedFrom(pre, jobs[i].file, jobs[i].raw), jobs[k].file, jobs[k].raw)

SameAsSequential ==
  /\ Contents(db) = Contents(OneAfterTheOther(1, 2))
  /\ Contents(db) = Contents(OneAfterTheOther(2, 1))

(* C21: two ingestFile runs on files that derive different layer names and *)
(* whose features touch disjoint meshes, interleaved statement by          *)
(* statement, end in the store (rows, registry, mesh index; generated ids  *)
(* aside) that running one after the other gives, in either order.         *)
C21_ParallelIndependent == BothEnded => SameAsSequential

(* the table names the two files' layers derive, with their mesh-map tables *)
TablesOf(fileName, raw) ==
  UNION {{def.tableName, def.meshMapTable}
           : def \in Range(layerDefsOf(fileName, toFeatureCollection(raw).features))}
  \ {NULL}

TablesApart ==
  /\ TablesOf(jobs[1].file, jobs[1].raw) \cap TablesOf(jobs[2].file, jobs[2].raw) = {}
  /\ \A i \in 1..2 : TablesOf(jobs[i].file, jobs[i].raw) \cap FIXED_TABLES = {}

(* the same for files whose derived table names collide with no fixed     *)
(* table and with no table of the other file                               *)
ParallelWithTablesApart == (BothEnded /\ TablesApart) => SameAsSequential

(* both runs ended after steps of the one were taken between steps of the  *)
(* other, the first replacing a layer that touched a mesh of the second    *)
ParallelInterleaved ==
  /\ BothEnded /\ TablesApart
  /\ jobs[1].pc = "done" /\ jobs[2].pc = "done"
  /\ pre.lmm # {} /\ db.lmm # {} /\ db.pf # {}
  /\ \E r \in pre.reg : r \notin db.reg

(* a run taken alone, statement by statement, ends in the store ingestFile *)
(* gives                                                                   *)
StatementsAgree ==
  \A i \in DOMAIN jobs :
    jobs[i].pc = "start" =>
      RunAlone(jobs[i], db, env).db = IngestedFrom(db, jobs[i].file, jobs[i].raw)

(* C22: for every coordinate the map view's meshCode250 returns the string *)
(* the ingestion's meshCode250 returns.                                    *)
C22_CodecSameOnBothPaths ==
  callOut.fn = "meshCode250" => callOut.shown = callOut.a

(* a coordinate one unit in the last place under a primary mesh boundary,  *)
(* where the rounded products decide the digits                            *)
C22_Witness ==
  /\ callOut.fn = "meshCode250"
  /\ callOut.shown = callOut.a
  /\ callOut.digits.r = -1

(***************************************************************************)
(* ingestFile called on its own, on files whose names normalizeLayerName   *)
(* rewrites and whose features fall into one, two, three or none of the    *)
(* geometry kinds.  callIn is the call, pre the store before it.           *)
(***************************************************************************)
MaxFileCalls == 1

F_roads == <<"M", "y", " ", "R", "o", "a", "d", "s">> \o GEOJSON_EXT
F_2024 == <<"2", "0", "2", "4">> \o GEOJSON_EXT
F_dash == <<"-">> \o GEOJSON_EXT

MultiLineAB ==
  Feat("MultiLineString", <<<<At(10, 10), At(20, 20)>>, <<At(100, 10), At(120, 30)>>>>,
       "mlAB")
MultiPolyAB ==
  Feat("MultiPolygon", <<<<ORIGIN[1] + 10, ORIGIN[2] + 10, ORIGIN[1] + 30, ORIGIN[2] + 30>>,
                         <<ORIGIN[1] + 100, ORIGIN[2] + 10, ORIGIN[1] + 120, ORIGIN[2] + 30>>>>,
       "mgAB")

FileNames == {F_a, F_A, F_roads, F_2024, F_dash}

FileFeatureLists ==
  {<<PointA>>, <<PointsBOut>>, <<LineB>>, <<MultiLineAB>>, <<PolyAB>>, <<MultiPolyAB>>,
   <<PointA, LineB>>, <<PointsBOut, MultiPolyAB>>, <<LineB, PolyAB>>,
   <<PointA, LineB, PolyAB>>, <<Unsupported, PointA, NoGeometry, MultiLineAB>>,
   <<NoGeometry, PolyAB, Unsupported>>, <<Unsupported, NoGeometry>>, <<>>}

FileContents ==
  {FC(fs) : fs \in FileFeatureLists} \cup {Payload("json", "Feature", <<LineACD>>)}

(* the stores the call may find: empty, or left by an earlier ingestion *)
FileBases ==
  {EmptyDb,
   ingestFile(StartState(EmptyDb, -1), F_a, FC(<<PointA, LineB>>), EnvUnset).db,
   ingestFile(StartState(EmptyDb, -1), F_roads, FC(<<LineB>>), EnvUnset).db,
   ingestFile(StartState(EmptyDb, -1), F_roads, FC(<<PointA, LineB, PolyAB>>),
              EnvUnset).db}

FileInit ==
  /\ db \in FileBases
  /\ run = [pc |-> "idle", no |-> 0, todo |-> {}, ingested |-> {},
            exitCode |-> 0, err |-> "none"]
  /\ hist = NoHist
  /\ pre = db
  /\ env = EnvUnset
  /\ gridIn = GridIdle
  /\ gridOut = [done |-> FALSE, cells |-> <<>>]
  /\ callIn = [fn |-> "ingestFile", calls |-> 0]
  /\ callOut = NoCall
  /\ jobs = <<>>
  /\ lookup = NoLookup

IngestOneFile ==
  /\ callIn.fn = "ingestFile"
  /\ callIn.calls < MaxFileCalls
  /\ \E f \in FileNames : \E raw \in FileContents :
       /\ callIn' = [fn |-> "ingestFile", calls |-> callIn.calls + 1,
                     file |-> f, raw |-> raw]
       /\ db' = ingestFile(StartState(db, -1), f, raw, env).db
       /\ callOut' = [fn |-> "ingestFile",
                      err |-> ingestFile(StartState(db, -1), f, raw, env).err]
  /\ pre' = db
  /\ UNCHANGED <<run, hist, env, gridIn, gridOut, jobs, lookup>>

FileNext == IngestOneFile

SpecFile == FileInit /\ [][FileNext]_vars

FileIngested == callOut.fn = "ingestFile" /\ callOut.err = "none"

(* the features of the call's document *)
GivenFeatures == toFeatureCollection(callIn.raw).features

GeometryTypesOf(kind) ==
  CASE kind = "point" -> {"Point", "MultiPoint"}
    [] kind = "line" -> {"LineString", "MultiLineString"}
    [] kind = "polygon" -> {"Polygon", "MultiPolygon"}

(* the features of a kind, and the kinds the document holds *)
OfKind(features, kind) ==
  {i \in DOMAIN features : features[i].geometry.type \in GeometryTypesOf(kind)}

KindsIn(features) == {k \in Range(KINDS) : OfKind(features, k) # {}}

NormalizedBase(fileName) == normalizeLayerName(basename(fileName, extname(fileName)))

(* the name the layer of a kind is to have *)
NameFor(fileName, kinds, kind) ==
  IF Cardinality(kinds) = 1 THEN NormalizedBase(fileName)
  ELSE NormalizedBase(fileName)
       \o (CASE kind = "point" -> "_points" [] kind = "line" -> "_lines"
             [] kind = "polygon" -> "_polygons")

(* C23: after a completed ingestFile the file's layers are registered, one *)
(* per geometry kind its features fall into: with one kind the layer has   *)
(* the normalized base name, with two or three kinds each layer has the    *)
(* base name followed by _points, _lines or _polygons; the names are       *)
(* pairwise distinct; a point layer has no mesh-map table, a line or       *)
(* polygon layer has the mesh-map table <layerName>_mesh_map.              *)
C23_LayerNaming ==
  (FileIngested /\ KindsIn(GivenFeatures) # {}) =>
    /\ \A k \in KindsIn(GivenFeatures) :
         \E r \in RegisteredFor(db, callIn.file) :
           /\ r.geometryType = k
           /\ r.layerName = NameFor(callIn.file, KindsIn(GivenFeatures), k)
           /\ r.meshMapTable = IF k = "point" THEN NULL
                               ELSE r.layerName \o "_mesh_map"
           /\ IsDyn(db, r.tableName)
           /\ k # "point" => IsDyn(db, r.meshMapTable)
    /\ Cardinality(RegisteredFor(db, callIn.file)) = Cardinality(KindsIn(GivenFeatures))
    /\ Cardinality({r.layerName : r \in RegisteredFor(db, callIn.file)})
         = Cardinality(KindsIn(GivenFeatures))

(* a file with three kinds whose name is rewritten, ingested after it was  *)
(* ingested with one kind                                                  *)
C23_Witness ==
  /\ FileIngested
  /\ callIn.file = F_roads
  /\ Cardinality(KindsIn(GivenFeatures)) = 3
  /\ \E r \in pre.reg : r.layerName = "my_roads"
  /\ {r.layerName : r \in db.reg}
       = {"my_roads_points", "my_roads_lines", "my_roads_polygons"}

(***************************************************************************)
(* The INSERT statements of one processLayer call, as the store receives   *)
(* them.  callIn is the layer definition, callOut the statements in the    *)
(* order they are issued, each with its table and its rows.  The layers    *)
(* hold up to MaxBatchRows features or pieces, in sizes around the         *)
(* multiples of INSERT_CHUNK_SIZE.                                         *)
(***************************************************************************)
MaxBatchRows == 1001

BatchSizes ==
  {n \in 1..MaxBatchRows :
     n <= 3 \/ n >= MaxBatchRows - 2 \/ n % INSERT_CHUNK_SIZE \in {0, 1, INSERT_CHUNK_SIZE - 1}}

(* the i-th cell east of ORIGIN *)
East(i, dx, dy) == At(MESH_LON_STEP_SEC * (i - 1) + dx, dy)

PointsApart(n) == [i \in 1..n |-> Feat("Point", <<East(i, 10, 10)>>, "p")]
PointsTogether(n) == [i \in 1..n |-> Feat("Point", <<At(10, 10)>>, "p")]
PointsInOne(n) == <<Feat("MultiPoint", [i \in 1..n |-> East(i, 10, 10)], "mp")>>
LinesApart(n) ==
  [i \in 1..n |-> Feat("LineString", <<<<East(i, 10, 10), East(i, 20, 20)>>>>, "l")]
(* n lines, each crossing from its cell into the next one *)
LinesAcross(n) ==
  [i \in 1..n |-> Feat("LineString", <<<<East(i, 10, 10), East(i + 1, 20, 20)>>>>, "x")]
PolygonsApart(n) ==
  [i \in 1..n |-> Feat("Polygon", <<<<East(i, 10, 10)[1], East(i, 10, 10)[2],
                                      East(i, 20, 20)[1], East(i, 20, 20)[2]>>>>, "g")]

BatchFeatureLists ==
  UNION {{PointsApart(n), PointsTogether(n), PointsInOne(n), LinesApart(n),
          LinesAcross(n), PolygonsApart(n)} : n \in BatchSizes}

BatchDefs == {layerDefsOf(F_a, fs)[1] : fs \in BatchFeatureLists}

BatchInit ==
  /\ db = EmptyDb
  /\ run = [pc |-> "idle", no |-> 0, todo |-> {}, ingested |-> {},
            exitCode |-> 0, err |-> "none"]
  /\ hist = NoHist
  /\ pre = EmptyDb
  /\ env = EnvUnset
  /\ gridIn = GridIdle
  /\ gridOut = [done |-> FALSE, cells |-> <<>>]
  /\ callIn \in [fn : {"inserts"}, def : BatchDefs]
  /\ callOut = NoCall
  /\ jobs = <<>>
  /\ lookup = NoLookup

INSERT_OPS ==
  {"upsertMeshIndex", "insertRowsDynamic", "insertPoints", "insertFeatures",
   "insertMeshMap", "insertLayerMeshMap"}

(* the ids a chunk's INSERT ... RETURNING id gives back on an empty table *)
Returned(chunk) == [i \in DOMAIN chunk |-> [id |-> i]]

(* the table and the rows of an INSERT statement *)
InsertOf(st) ==
  CASE st.op = "upsertMeshIndex" -> [op |-> st.op, table |-> "mesh_index", rows |-> st.arg]
    [] st.op = "insertRowsDynamic" ->
         [op |-> st.op, table |-> st.arg.tableName, rows |-> st.arg.chunk]
    [] st.op = "insertPoints" -> [op |-> st.op, table |-> "point_features", rows |-> st.arg]
    [] st.op = "insertFeatures" ->
         [op |-> st.op, table |-> st.def.geometryType \o "_features", rows |-> st.arg]
    [] st.op = "insertMeshMap" ->
         [op |-> st.op, table |-> st.def.geometryType \o "_mesh_map",
          rows |-> MeshRowChunk(Returned(st.arg.chunk), st.arg)]
    [] st.op = "insertLayerMeshMap" ->
         [op |-> st.op, table |-> st.def.meshMapTable,
          rows |-> MeshRowChunk(Returned(st.arg.chunk), st.arg)]

InsertsOf(stmts) ==
  LET IsInsert(st) == st.op \in INSERT_OPS
      Inserts(sel) == [i \in DOMAIN sel |-> InsertOf(sel[i])]
  IN Inserts(SelectSeq(stmts, IsInsert))

ProcessLayerInserts ==
  /\ callIn.fn = "inserts"
  /\ callOut = NoCall
  /\ callOut' = [fn |-> "inserts",
                 inserts |-> InsertsOf(processLayerStmts(callIn.def, env))]
  /\ UNCHANGED <<db, run, hist, pre, env, gridIn, gridOut, callIn, jobs, lookup>>

BatchNext == ProcessLayerInserts

SpecBatch == BatchInit /\ [][BatchNext]_vars

(* the rows of the statements on one table, one batch after the other *)
Batched(inserts, op) ==
  LET Is(x) == x.op = op
      Rows(sel) == Flatten([i \in DOMAIN sel |-> sel[i].rows])
  IN Rows(SelectSeq(inserts, Is))

(* a row without the generated id it references *)
PieceOf(r) == [meshId |-> r.meshId, properties |-> r.properties, ratio |-> r.ratio]

Pieces(rows) == [i \in DOMAIN rows |-> PieceOf(rows[i])]

(* the pieces of all items, item after item *)
AllPieces(items) ==
  Flatten([i \in DOMAIN items |->
             [k \in DOMAIN items[i].pieces |->
                [meshId |-> items[i].pieces[k].meshId,
                 properties |-> items[i].properties,
                 ratio |-> items[i].pieces[k].ratio]]])

PointBatchesComplete(inserts, rows) ==
  /\ Batched(inserts, "upsertMeshIndex") = PointMeshIds(rows)
  /\ Batched(inserts, "insertRowsDynamic") = rows
  /\ Batched(inserts, "insertPoints") = rows

ItemBatchesComplete(inserts, items) ==
  /\ Batched(inserts, "upsertMeshIndex") = MeshIndexIds(items)
  /\ Batched(inserts, "insertRowsDynamic") = items
  /\ Batched(inserts, "insertFeatures") = items
  /\ Pieces(Batched(inserts, "insertMeshMap")) = AllPieces(items)
  /\ Pieces(Batched(inserts, "insertLayerMeshMap")) = AllPieces(items)

BatchesComplete(inserts, def, e) ==
  IF def.geometryType = "point"
  THEN PointBatchesComplete(inserts, PointRows(KeptPoints(def.features)))
  ELSE IF def.geometryType = "line"
  THEN ItemBatchesComplete(inserts, toLineItems(def.features, e))
  ELSE ItemBatchesComplete(inserts, toPolygonItems(def.features, e))

(* C24: every INSERT statement of the ingestion of a layer (mesh_index     *)
(* upserts, generic feature tables, generic mesh-map tables, the layer's   *)
(* own tables) carries at most 500 rows, and the batches on each table     *)
(* together hold every input row exactly once, in order.                   *)
C24_BoundedBatches ==
  callOut.fn = "inserts" =>
    /\ \A i \in DOMAIN callOut.inserts :
         Len(callOut.inserts[i].rows) \in 1..500
    /\ BatchesComplete(callOut.inserts, callIn.def, env)

BatchLens(inserts, op) ==
  LET Is(x) == x.op = op
      Lens(sel) == [i \in DOMAIN sel |-> Len(sel[i].rows)]
  IN Lens(SelectSeq(inserts, Is))

(* a line layer of 1001 features goes out in batches of 500, 500 and 1 on  *)
(* every table                                                             *)
C24_Witness ==
  /\ callOut.fn = "inserts"
  /\ callIn.def.geometryType = "line"
  /\ \A op \in INSERT_OPS \ {"insertPoints"} :
       BatchLens(callOut.inserts, op) = <<500, 500, 1>>

(* the tags of the given features of a kind *)
TagsOfKind(kind) == {GivenFeatures[i].properties : i \in OfKind(GivenFeatures, kind)}

(* the generic feature table of a kind, and its mesh-map table *)
FeaturesOfKind(d, kind) ==
  CASE kind = "point" -> d.pf [] kind = "line" -> d.lf [] kind = "polygon" -> d.gf

MeshMapOfKind(d, kind) ==
  CASE kind = "point" -> {} [] kind = "line" -> d.lmm [] kind = "polygon" -> d.pmm

FileLayerNames(d, f) == {r.layerName : r \in RegisteredFor(d, f)}

(* the tags stored for the file's layers in the tables of a kind *)
StoredTags(d, f, kind) ==
  {r.properties : r \in {x \in FeaturesOfKind(d, kind) \cup MeshMapOfKind(d, kind) :
                           x.sourceLayer \in FileLayerNames(d, f)}}

DynTags(d, name) == {r.properties : r \in d.dyn[name].rows}

(* the dynamic tables the call created *)
CreatedTables == {n \in DOMAIN db.dyn : n \notin DOMAIN pre.dyn \/ db.dyn[n] # pre.dyn[n]}

(* C25: ingestFile puts each feature into exactly one of the groups point  *)
(* (Point, MultiPoint), line (LineString, MultiLineString) and polygon     *)
(* (Polygon, MultiPolygon): its rows are in the tables of that kind and of *)
(* no other; a feature without geometry or of another type has no row; a   *)
(* kind without features gets no registry row and no table, and a document *)
(* without any supported feature leaves the store as it was.               *)
C25_GroupingByKind ==
  FileIngested =>
    /\ KindsIn(GivenFeatures) = {} => db = pre
    /\ KindsIn(GivenFeatures) # {} =>
         /\ \A k \in Range(KINDS) : StoredTags(db, callIn.file, k) = TagsOfKind(k)
         /\ {r.geometryType : r \in RegisteredFor(db, callIn.file)} = KindsIn(GivenFeatures)
         /\ \A r \in RegisteredFor(db, callIn.file) :
              /\ DynTags(db, r.tableName) = TagsOfKind(r.geometryType)
              /\ r.meshMapTable # NULL =>
                   DynTags(db, r.meshMapTable) = TagsOfKind(r.geometryType)
         /\ CreatedTables \subseteq
              {r.tableName : r \in RegisteredFor(db, callIn.file)}
                \cup {r.meshMapTable : r \in RegisteredFor(db, callIn.file)}

(* a document with a point, a multi-line, a feature without geometry and a *)
(* feature of another type, ingested over the file's three earlier layers  *)
C25_Witness ==
  /\ FileIngested
  /\ GivenFeatures = <<Unsupported, PointA, NoGeometry, MultiLineAB>>
  /\ Cardinality(RegisteredFor(pre, callIn.file)) = 3
  /\ {r.geometryType : r \in RegisteredFor(db, callIn.file)} = {"point", "line"}
  /\ StoredTags(db, callIn.file, "point") = {"pA"}
  /\ StoredTags(db, callIn.file, "line") = {"mlAB"}
  /\ StoredTags(db, callIn.file, "polygon") = {}

(* everything the store holds under a layer name *)
DynView(d, name) == IF IsDyn(d, name) THEN <<UnkeyedDyn(d.dyn[name])>> ELSE <<>>

LayerView(d, L) ==
  [reg |-> {r \in d.reg : r.layerName = L},
   pf |-> Unkeyed(LayerRows(d.pf, L)),
   lf |-> Unkeyed(LayerRows(d.lf, L)),
   gf |-> Unkeyed(LayerRows(d.gf, L)),
   lmm |-> UnkeyedMesh(LayerRows(d.lmm, L), d.lf),
   pmm |-> UnkeyedMesh(LayerRows(d.pmm, L), d.gf),
   table |-> DynView(d, L),
   meshMap |-> DynView(d, L \o "_mesh_map"),
   presence |-> {m \in DOMAIN d.idx : L \in d.idx[m].layerPresence}]

(* the layers the last call was to write or to remove *)
LayersOfLastCall ==
  {def.layerName :
     def \in Range(layerDefsOf(hist.file, toFeatureCollection(hist.raw).features))}
    \cup {r.layerName : r \in RegisteredFor(pre, hist.file)}

(* the store the last call leaves when no statement fails *)
Unfailed(s) == IF s.err = "none" THEN s.db ELSE pre

NewState == Unfailed(ingestFile(StartState(pre, -1), hist.file, hist.raw, env))

PreviousOrNew(d) ==
  \A L \in LayersOfLastCall :
    LayerView(d, L) = LayerView(pre, L) \/ LayerView(d, L) = LayerView(NewState, L)

(* every registry row has its tables *)
RegistryBacked(d) ==
  \A r \in d.reg :
    /\ IsDyn(d, r.tableName)
    /\ r.meshMapTable # NULL => IsDyn(d, r.meshMapTable)

(* rows, dynamic tables and layerPresence keys belong to registered layers *)
NoOrphans(d) ==
  /\ \A i \in 1..5 : \A x \in GenericTables(d)[i] :
       \E r \in d.reg : r.layerName = x.sourceLayer
  /\ \A n \in DOMAIN d.dyn : \E r \in d.reg : n \in {r.tableName, r.meshMapTable}
  /\ \A m \in DOMAIN d.idx : \A L \in d.idx[m].layerPresence :
       \E r \in d.reg : r.layerName = L

(* C26: when a store error aborts processLayer or removeLayer after any of *)
(* its statements, each layer of the call is entirely in its previous or   *)
(* entirely in its new state: no registry row is without its tables, and   *)
(* no rows, dynamic tables or layerPresence keys are without registry row. *)
C26_AtomicLayerReplacement ==
  hist.outcome = "store" =>
    /\ PreviousOrNew(db)
    /\ RegistryBacked(db)
    /\ NoOrphans(db)

(***************************************************************************)
(* An ingestion that is interrupted, and the re-ingestion of the file.     *)
(* The first ingestFile call on a.geojson ends with a store error at one   *)
(* of its statements; the second call, with the same or another content,   *)
(* runs to its end.  pre is the store before the first call.               *)
(***************************************************************************)
ResumeFeatureLists ==
  {<<LineB>>, <<LineACD>>, <<PointA>>, <<PointA, LineB>>, <<PolyAB>>}

ResumeContents == {FC(fs) : fs \in ResumeFeatureLists}

ResumeBases ==
  {EmptyDb,
   ingestFile(StartState(EmptyDb, -1), F_a, FC(<<LineACD>>), EnvUnset).db,
   ingestFile(StartState(EmptyDb, -1), F_a, FC(<<PointA, LineB>>), EnvUnset).db}

ResumeInit ==
  /\ db \in ResumeBases
  /\ run = [pc |-> "idle", no |-> 0, todo |-> {}, ingested |-> {},
            exitCode |-> 0, err |-> "none"]
  /\ hist = NoHist
  /\ pre = db
  /\ env = EnvUnset
  /\ gridIn = GridIdle
  /\ gridOut = [done |-> FALSE, cells |-> <<>>]
  /\ callIn = [fn |-> "interrupt", file |-> F_a]
  /\ callOut = NoCall
  /\ jobs = <<>>
  /\ lookup = NoLookup

Interrupted(raw, k, s) ==
  /\ s.err = "store"
  /\ db' = s.db
  /\ pre' = db
  /\ callIn' = [fn |-> "reingest", file |-> callIn.file, raw |-> raw, failAt |-> k]
  /\ UNCHANGED <<run, hist, env, gridIn, gridOut, callOut, jobs, lookup>>

(* the store fails at the k-th statement of the first call *)
InterruptIngest ==
  /\ callIn.fn = "interrupt"
  /\ \E raw \in ResumeContents :
       \E k \in 0..(ingestFile(StartState(db, -1), callIn.file, raw, env).n - 1) :
          Interrupted(raw, k, ingestFile(StartState(db, k), callIn.file, raw, env))

Reingested(raw, s) ==
  /\ db' = s.db
  /\ callOut' = [fn |-> "reingest", raw |-> raw, err |-> s.err]
  /\ UNCHANGED <<run, hist, pre, env, gridIn, gridOut, callIn, jobs, lookup>>

ReingestFile ==
  /\ callIn.fn = "reingest"
  /\ callOut = NoCall
  /\ \E raw \in ResumeContents :
       Reingested(raw, ingestFile(StartState(db, -1), callIn.file, raw, env))

ResumeNext == InterruptIngest \/ ReingestFile

SpecResume == ResumeInit /\ [][ResumeNext]_vars

(* the store without generated ids and without the record of dropped tables *)
StoreView(d) == [Contents(d) EXCEPT !.dropped = {}]

(* the store an uninterrupted ingestion of the second content leaves *)
Uninterrupted == ingestFile(StartState(pre, -1), callIn.file, callOut.raw, env).db

FlagsSupported(d) ==
  \A m \in DOMAIN d.idx :
    /\ d.idx[m].hasPoints => \E r \in d.pf : r.meshId = m
    /\ d.idx[m].hasLines => \E r \in d.lmm : r.meshId = m
    /\ d.idx[m].hasPolygons => \E r \in d.pmm : r.meshId = m

(* the meshes a registered layer has rows in *)
TouchedMeshes(d, L) ==
  {r.meshId : r \in LayerRows(d.pf, L) \cup LayerRows(d.lmm, L) \cup LayerRows(d.pmm, L)}

PresenceCurrent(d) ==
  \A m \in DOMAIN d.idx : \A L \in d.idx[m].layerPresence : m \in TouchedMeshes(d, L)

(* C27: when the ingestion of a layer is interrupted at a statement and    *)
(* the file is then re-ingested to completion, with the same or another    *)
(* content, the store equals the one an uninterrupted ingestion of that    *)
(* content leaves: no mesh_index entry has a flag set without a supporting *)
(* row, none names the layer in layerPresence for a mesh it does not touch.*)
C27_ConvergenceAfterInterruption ==
  (callOut.fn = "reingest" /\ callOut.err = "none") =>
    /\ StoreView(db) = StoreView(Uninterrupted)
    /\ FlagsSupported(db)
    /\ PresenceCurrent(db)

(***************************************************************************)
(* One ingestFile call, statement by statement, on its own: every state    *)
(* between two statements of the call is a state of this specification.    *)
(***************************************************************************)
StepFeatureLists ==
  {<<PointA>>, <<PointsBOut>>, <<LineACD>>, <<MultiLineAB>>, <<PolyAB>>, <<MultiPolyAB>>,
   <<PointA, LineACD, PolyAB>>, <<LineB, LineACD>>, <<Unsupported, NoGeometry>>}

StepJobs ==
  {<<NewFileJob(f, FC(fs))>> : f \in {F_a, F_roads, F_line, F_mesh_index}, fs \in StepFeatureLists}

StepInit ==
  /\ db \in FileBases
  /\ pre = db
  /\ run = [pc |-> "idle", no |-> 0, todo |-> {}, ingested |-> {},
            exitCode |-> 0, err |-> "none"]
  /\ hist = NoHist
  /\ env = EnvUnset
  /\ gridIn = GridIdle
  /\ gridOut = [done |-> FALSE, cells |-> <<>>]
  /\ callIn = NoCall
  /\ callOut = NoCall
  /\ jobs \in StepJobs
  /\ lookup = NoLookup

StepNext == IngestFileStep

SpecSteps == StepInit /\ [][StepNext]_vars

(* the mesh identifiers the rows of a statement reference *)
ReferencedBy(st, j) ==
  CASE st.op \in {"insertPoints", "insertFeatures"} -> MeshIdsOf(st.arg)
    [] st.op = "insertMeshMap" -> MeshIdsOf(MeshRowChunk(j.inserted, st.arg))
    [] OTHER -> {}

(* the statement the call issues next finds its mesh_index entries *)
NextInsertIndexed(j) ==
  j.pc = "run" => ReferencedBy(Head(j.todo), j) \subseteq DOMAIN db.idx

AllReferencesIndexed(d) ==
  \A i \in 1..5 : \A r \in GenericTables(d)[i] : r.meshId \in DOMAIN d.idx

(* C28: on the ingestion path the mesh_index entry of a mesh identifier is *)
(* created before a row of point_features, line_features, polygon_features,*)
(* line_mesh_map or polygon_mesh_map that references it is inserted: every *)
(* such INSERT finds its entries, and between any two statements every     *)
(* meshId of these tables has a mesh_index entry.                          *)
C28_IndexBeforeReference ==
  /\ AllReferencesIndexed(db)
  /\ \A i \in DOMAIN jobs : NextInsertIndexed(jobs[i])

(* the mesh rows of a line are about to be inserted, one of them in a cell *)
(* that is not the line's own, and the line's feature row is stored        *)
C28_Witness ==
  /\ Len(jobs) = 1
  /\ jobs[1].pc = "run"
  /\ Head(jobs[1].todo).op = "insertMeshMap"
  /\ \E r \in db.lf :
       /\ r.sourceLayer = Head(jobs[1].todo).def.layerName
       /\ ReferencedBy(Head(jobs[1].todo), jobs[1]) \ {r.meshId} # {}
  /\ ReferencedBy(Head(jobs[1].todo), jobs[1]) \subseteq DOMAIN db.idx

(***************************************************************************)
(* mapLinePolygonMeshes: the full rescan of line_features and              *)
(* polygon_features, statement by statement.                               *)
(*   callOut = [fn, pc, todo]: the statements still to be issued           *)
(*   pre = the store before the call                                       *)
(***************************************************************************)
(* the rows of a table in the order of their ids *)
RowsInIdOrder(rows) ==
  [i \in 1..Cardinality(rows) |->
     CHOOSE r \in rows : Cardinality({x \in rows : x.id < r.id}) = i - 1]

(* the mesh rows of one stored line or polygon *)
RescanRowsOf(row, pieces) ==
  [k \in DOMAIN pieces |->
     [sourceLayer |-> row.sourceLayer, ref |-> row.id, meshId |-> pieces[k].meshId,
      properties |-> row.properties, ratio |-> pieces[k].ratio]]

LineRescanRows(row, e) ==
  IF ~IsLineGeom(row.geometry) THEN <<>>
  ELSE RescanRowsOf(row, buildLineMeshPieces(row.geometry, e))

PolygonRescanRows(row, e) ==
  IF ~IsPolygonGeom(row.geometry) THEN <<>>
  ELSE RescanRowsOf(row, buildPolygonMeshPieces(row.geometry, e))

mapLineLayerRows(lineRows, e) ==
  Flatten([i \in DOMAIN lineRows |-> LineRescanRows(lineRows[i], e)])

mapPolygonLayerRows(polygonRows, e) ==
  Flatten([i \in DOMAIN polygonRows |-> PolygonRescanRows(polygonRows[i], e)])

(* insertInChunks and upsertMeshFlag: one statement per chunk *)
insertInChunksStmts(op, rows) ==
  [i \in DOMAIN chunkArray(rows, INSERT_CHUNK_SIZE) |->
     [op |-> op, arg |-> chunkArray(rows, INSERT_CHUNK_SIZE)[i]]]

upsertMeshFlagStmts(flag, rows) ==
  insertInChunksStmts(flag, Distinct([i \in DOMAIN rows |-> rows[i].meshId]))

(* the statements of the call on store d; the two SELECTs read tables that *)
(* no statement of the call writes                                         *)
mapLinePolygonMeshesStmts(d, e) ==
  <<[op |-> "deleteLineMeshMap", arg |-> <<>>],
    [op |-> "deletePolygonMeshMap", arg |-> <<>>],
    [op |-> "resetMeshFlags", arg |-> <<>>],
    [op |-> "selectLines", arg |-> <<>>],
    [op |-> "selectPolygons", arg |-> <<>>]>>
  \o insertInChunksStmts("insertLineMeshMap", mapLineLayerRows(RowsInIdOrder(d.lf), e))
  \o insertInChunksStmts("insertPolygonMeshMap",
                         mapPolygonLayerRows(RowsInIdOrder(d.gf), e))
  \o upsertMeshFlagStmts("hasLines", mapLineLayerRows(RowsInIdOrder(d.lf), e))
  \o upsertMeshFlagStmts("hasPolygons", mapPolygonLayerRows(RowsInIdOrder(d.gf), e))

(* variant: the flags are left as they are *)
resetMeshFlagsMutNone(d) == d

resetMeshFlags(d) ==
  [d EXCEPT !.idx = [m \in DOMAIN d.idx |->
                       [d.idx[m] EXCEPT !.hasLines = FALSE, !.hasPolygons = FALSE]]]

(* INSERT INTO mesh_index ... ON CONFLICT (mesh_id) DO UPDATE SET flag = true *)
upsertMeshFlag(d, meshIds, flag) ==
  [d EXCEPT !.idx =
     [m \in DOMAIN d.idx \cup meshIds |->
        IF m \notin meshIds THEN d.idx[m]
        ELSE IF flag = "hasLines"
        THEN [(IF m \in DOMAIN d.idx THEN d.idx[m] ELSE NewMeshRow)
                EXCEPT !.hasLines = TRUE]
        ELSE [(IF m \in DOMAIN d.idx THEN d.idx[m] ELSE NewMeshRow)
                EXCEPT !.hasPolygons = TRUE]]]

RescanMeshRows(old, rows) ==
  LET ids == FreshIds(Ids(old), Len(rows))
  IN {[id |-> ids[i], sourceLayer |-> rows[i].sourceLayer, ref |-> rows[i].ref,
       meshId |-> rows[i].meshId, properties |-> rows[i].properties,
       ratio |-> rows[i].ratio] : i \in DOMAIN rows}

(* the foreign keys of line_mesh_map and polygon_mesh_map *)
RescanInsertOk(d, features, rows) ==
  /\ AllIn(d, MeshIdsOf(rows))
  /\ {r.ref : r \in Range(rows)} \subseteq Ids(features)

RescanExec(st, s) ==
  CASE st.op = "deleteLineMeshMap" ->
         Stmt(s, HasFixed(s.db, "line_mesh_map"), [s.db EXCEPT !.lmm = {}])
    [] st.op = "deletePolygonMeshMap" ->
         Stmt(s, HasFixed(s.db, "polygon_mesh_map"), [s.db EXCEPT !.pmm = {}])
    [] st.op = "resetMeshFlags" ->
         Stmt(s, HasFixed(s.db, "mesh_index"), resetMeshFlags(s.db))
    [] st.op = "selectLines" -> Stmt(s, HasFixed(s.db, "line_features"), s.db)
    [] st.op = "selectPolygons" -> Stmt(s, HasFixed(s.db, "polygon_features"), s.db)
    [] st.op = "insertLineMeshMap" ->
         Stmt(s, HasFixed(s.db, "line_mesh_map") /\ RescanInsertOk(s.db, s.db.lf, st.arg),
              [s.db EXCEPT !.lmm = @ \cup RescanMeshRows(@, st.arg)])
    [] st.op = "insertPolygonMeshMap" ->
         Stmt(s, HasFixed(s.db, "polygon_mesh_map")
                 /\ RescanInsertOk(s.db, s.db.gf, st.arg),
              [s.db EXCEPT !.pmm = @ \cup RescanMeshRows(@, st.arg)])
    [] st.op \in {"hasLines", "hasPolygons"} ->
         Stmt(s, HasFixed(s.db, "mesh_index"), upsertMeshFlag(s.db, Range(st.arg), st.op))

(* the store seed() leaves before it calls mapLinePolygonMeshes: a point,  *)
(* a line and a polygon, each stored under the mesh of its centre, and     *)
(* mesh_index entries for these meshes only                                *)
SeedRow(f, centre) ==
  [id |-> 1, sourceLayer |-> NULL, meshId |-> meshCode250(centre[2], centre[1]),
   geometry |-> f.geometry, properties |-> f.properties]

SeedLine == Feat("LineString", <<<<At(100, 10), At(280, 20)>>>>, "sl")

SeedRows ==
  [pf |-> {SeedRow(PointA, At(10, 10))},
   lf |-> {SeedRow(SeedLine, At(190, 15))},
   gf |-> {SeedRow(PolyAB, At(55, 30))}]

SeedIndex(rows) ==
  [m \in {r.meshId : r \in rows.pf \cup rows.lf \cup rows.gf} |->
     [hasPoints |-> \E r \in rows.pf : r.meshId = m,
      hasLines |-> \E r \in rows.lf : r.meshId = m,
      hasPolygons |-> \E r \in rows.gf : r.meshId = m,
      layerPresence |-> {}]]

SeedStore ==
  [EmptyDb EXCEPT !.idx = SeedIndex(SeedRows), !.pf = SeedRows.pf,
                  !.lf = SeedRows.lf, !.gf = SeedRows.gf]

(* the stores ingestFile leaves, when it ends and when the store fails at  *)
(* one of its statements                                                   *)
RescanIngested ==
  {IngestedFrom(EmptyDb, F_a, FC(<<PointA, LineACD, PolyAB>>)),
   IngestedFrom(EmptyDb, F_roads, FC(<<LineB, LineACD>>)),
   IngestedFrom(IngestedFrom(EmptyDb, F_a, FC(<<LineACD>>)), F_line, FC(<<LineOut>>))}

RescanContents == {FC(<<PointA, LineACD>>), FC(<<PolyAB>>), FC(<<PointA>>)}

InterruptedFrom(d, f, raw) ==
  {ingestFile(StartState(d, k), f, raw, EnvUnset).db :
     k \in 0..(ingestFile(StartState(d, -1), f, raw, EnvUnset).n - 1)}

RescanInterrupted ==
  UNION {InterruptedFrom(IngestedFrom(EmptyDb, F_roads, FC(<<PointA2, LineB>>)),
                         F_roads, raw) : raw \in RescanContents}

RescanBases == {EmptyDb, SeedStore} \cup RescanIngested \cup RescanInterrupted

RescanInit ==
  /\ db \in RescanBases
  /\ pre = db
  /\ run = [pc |-> "idle", no |-> 0, todo |-> {}, ingested |-> {},
            exitCode |-> 0, err |-> "none"]
  /\ hist = NoHist
  /\ env = EnvUnset
  /\ gridIn = GridIdle
  /\ gridOut = [done |-> FALSE, cells |-> <<>>]
  /\ callIn = [fn |-> "mapLinePolygonMeshes"]
  /\ callOut = NoCall
  /\ jobs = <<>>
  /\ lookup = NoLookup

StartRescan ==
  /\ callIn.fn = "mapLinePolygonMeshes"
  /\ callOut = NoCall
  /\ callOut' = [fn |-> "mapLinePolygonMeshes", pc |-> "run",
                 todo |-> mapLinePolygonMeshesStmts(db, env)]
  /\ UNCHANGED <<db, run, hist, pre, env, gridIn, gridOut, callIn, jobs, lookup>>

Rescanned(s) ==
  /\ db' = s.db
  /\ callOut' = IF s.err # "none" THEN [callOut EXCEPT !.pc = "failed"]
                ELSE [callOut EXCEPT !.todo = Tail(@),
                                     !.pc = IF Len(callOut.todo) = 1 THEN "done"
                                            ELSE "run"]
  /\ UNCHANGED <<run, hist, pre, env, gridIn, gridOut, callIn, jobs, lookup>>

RescanStep ==
  /\ callOut.fn = "mapLinePolygonMeshes"
  /\ callOut.pc = "run"
  /\ Rescanned(RescanExec(Head(callOut.todo), StartState(db, -1)))

RescanNext == StartRescan \/ RescanStep

SpecRescan == RescanInit /\ [][RescanNext]_vars

Rescanning == callOut.fn = "mapLinePolygonMeshes" /\ callOut.pc = "run"

(* C29: during mapLinePolygonMeshes no row goes into line_mesh_map or      *)
(* polygon_mesh_map for a mesh identifier without mesh_index entry at that *)
(* moment: every INSERT of the call references only mesh identifiers that  *)
(* have an entry, also for the pieces that lie in cells other than the     *)
(* feature's own stored meshId.                                            *)
C29_RescanIndexBeforeReference ==
  /\ callOut.fn = "mapLinePolygonMeshes" => AllReferencesIndexed(db)
  /\ (Rescanning /\ Head(callOut.todo).op \in {"insertLineMeshMap", "insertPolygonMeshMap"})
       => MeshIdsOf(Head(callOut.todo).arg) \subseteq DOMAIN db.idx

RescanDone == callOut.fn = "mapLinePolygonMeshes" /\ callOut.pc = "done"

(* C30: when mapLinePolygonMeshes has completed, hasLines of a mesh_index  *)
(* entry is true iff line_mesh_map has a row of the mesh, hasPolygons is   *)
(* true iff polygon_mesh_map has one, and hasPoints of every entry is what *)
(* it was before the call.                                                 *)
C30_FullRescanResult ==
  RescanDone =>
    /\ \A m \in DOMAIN db.idx :
         /\ db.idx[m].hasLines <=> \E r \in db.lmm : r.meshId = m
         /\ db.idx[m].hasPolygons <=> \E r \in db.pmm : r.meshId = m
    /\ DOMAIN db.idx = DOMAIN pre.idx
    /\ \A m \in DOMAIN pre.idx : db.idx[m].hasPoints = pre.idx[m].hasPoints

(* a completed rescan that cleared the hasLines flag of a mesh no line     *)
(* touches any more, set it on another and kept a hasPoints flag           *)
C30_Witness ==
  /\ RescanDone
  /\ \E m \in DOMAIN pre.idx : pre.idx[m].hasLines /\ ~db.idx[m].hasLines
  /\ \E m \in DOMAIN db.idx : db.idx[m].hasLines
  /\ \E m \in DOMAIN db.idx : db.idx[m].hasPoints

(***************************************************************************)
(* One processLayer or removeLayer call on a store that earlier            *)
(* ingestions have left.  callIn names the call and its layer, pre is the  *)
(* store before it.                                                        *)
(***************************************************************************)
FrameBases ==
  {IngestedFrom(IngestedFrom(EmptyDb, F_a, FC(<<PointA, LineACD>>)),
                F_roads, FC(<<PointA2, LineB, PolyAB>>)),
   IngestedFrom(IngestedFrom(EmptyDb, F_a, FC(<<LineACD>>)), F_line, FC(<<LineOut>>)),
   IngestedFrom(IngestedFrom(EmptyDb, F_a, FC(<<PolyAB>>)), F_roads, FC(<<LineACD>>)),
   IngestedFrom(EmptyDb, F_roads, FC(<<PointA, LineB>>))}

FrameFeatureLists ==
  {<<PointA>>, <<PointsBOut>>, <<PointOut>>, <<LineB>>, <<LineACD>>, <<LineOut>>,
   <<PolyAB>>, <<MultiPolyAB>>, <<PointA2, LineB>>, <<LineACD, PolyAB>>}

(* a file named as the mesh-map table of the layer of a.geojson *)
F_a_mesh_map == <<"a", "_", "m", "e", "s", "h", "_", "m", "a", "p">> \o GEOJSON_EXT

FrameDefs ==
  UNION {Range(layerDefsOf(f, fs)) :
           f \in {F_a, F_roads, F_line, F_mesh_index, F_a_mesh_map},
           fs \in FrameFeatureLists}

FrameInit ==
  /\ db \in FrameBases
  /\ pre = db
  /\ run = [pc |-> "idle", no |-> 0, todo |-> {}, ingested |-> {},
            exitCode |-> 0, err |-> "none"]
  /\ hist = NoHist
  /\ env = EnvUnset
  /\ gridIn = GridIdle
  /\ gridOut = [done |-> FALSE, cells |-> <<>>]
  /\ callIn = [fn |-> "layer"]
  /\ callOut = NoCall
  /\ jobs = <<>>
  /\ lookup = NoLookup

LayerCalled(fn, def, s) ==
  /\ db' = s.db
  /\ callIn' = [fn |-> fn, layerName |-> def.layerName, def |-> def]
  /\ callOut' = [fn |-> fn, err |-> s.err]
  /\ UNCHANGED <<run, hist, pre, env, gridIn, gridOut, jobs, lookup>>

ProcessOneLayer ==
  /\ callIn.fn = "layer"
  /\ \E def \in FrameDefs :
       LayerCalled("processLayer", def, processLayer(StartState(db, -1), def, env))

RemoveOneLayer ==
  /\ callIn.fn = "layer"
  /\ \E r \in db.reg :
       LayerCalled("removeLayer", r, removeLayer(StartState(db, -1), r))

FrameNext == ProcessOneLayer \/ RemoveOneLayer

SpecFrame == FrameInit /\ [][FrameNext]_vars

(* the meshes a layer has rows in or is named in *)
MeshesOfLayer(d, L) ==
  {r.meshId : r \in LayerRows(d.pf, L) \cup LayerRows(d.lf, L) \cup LayerRows(d.gf, L)
                      \cup LayerRows(d.lmm, L) \cup LayerRows(d.pmm, L)}
    \cup {m \in DOMAIN d.idx : L \in d.idx[m].layerPresence}

LayerCallEnded ==
  callOut.fn \in {"processLayer", "removeLayer"} /\ callOut.err = "none"

(* the entries outside the layer's old and new meshes are as before, and   *)
(* the other layers' keys are as before everywhere                         *)
IndexFrame(L) ==
  /\ \A m \in DOMAIN pre.idx \ (MeshesOfLayer(pre, L) \cup MeshesOfLayer(db, L)) :
       m \in DOMAIN db.idx /\ db.idx[m] = pre.idx[m]
  /\ \A m \in DOMAIN pre.idx \cap DOMAIN db.idx :
       db.idx[m].layerPresence \ {L} = pre.idx[m].layerPresence \ {L}

(* C31: processLayer(L) and removeLayer(L) change the flags and the        *)
(* layerPresence map only of the mesh_index entries of L's old and new     *)
(* meshes; every other entry is unchanged, and no layerPresence key other  *)
(* than L is added or removed.                                             *)
C31_IncrementalFrame == LayerCallEnded => IndexFrame(callIn.layerName)

(* the same for layers whose tables are no table of the schema *)
FrameTablesApart ==
  {callIn.layerName, callIn.layerName \o "_mesh_map"} \cap FIXED_TABLES = {}

FrameWithTablesApart == (LayerCallEnded /\ FrameTablesApart) => IndexFrame(callIn.layerName)

(* a completed processLayer call for a layer registered with another kind *)
PreviousRow == CHOOSE r \in pre.reg : r.layerName = callIn.layerName

KindChanged ==
  /\ callOut.fn = "processLayer" /\ callOut.err = "none"
  /\ \E r \in pre.reg : r.layerName = callIn.layerName
                          /\ r.geometryType # callIn.def.geometryType

GenericRowsOf(d, L) ==
  LayerRows(d.pf, L) \cup LayerRows(d.lf, L) \cup LayerRows(d.gf, L)
    \cup LayerRows(d.lmm, L) \cup LayerRows(d.pmm, L)

RowsOfKind(d, kind, L) ==
  IF kind = "point" THEN LayerRows(d.pf, L)
  ELSE IF kind = "line" THEN LayerRows(d.lf, L) \cup LayerRows(d.lmm, L)
  ELSE LayerRows(d.gf, L) \cup LayerRows(d.pmm, L)

OldOnlyMeshes(L) ==
  {r.meshId : r \in GenericRowsOf(pre, L)} \ {r.meshId : r \in GenericRowsOf(db, L)}

RegisteredAs(def) ==
  \E r \in db.reg : /\ r.layerName = def.layerName
                    /\ r.geometryType = def.geometryType
                    /\ r.meshMapTable = def.meshMapTable
                    /\ \A q \in db.reg : q.layerName = def.layerName => q = r

PreviousMeshMapReplaced(def, prev) ==
  prev.meshMapTable # NULL =>
    IF def.meshMapTable = prev.meshMapTable
    THEN /\ IsDyn(db, def.meshMapTable)
         /\ db.dyn[def.meshMapTable].cols = def.geometryType
    ELSE ~tableExists(db, prev.meshMapTable)

FlagsRefreshed(m) ==
  /\ db.idx[m].hasPoints = ExistsRow(db.pf, m)
  /\ db.idx[m].hasLines = ExistsRow(db.lmm, m)
  /\ db.idx[m].hasPolygons = ExistsRow(db.pmm, m)

(* C32: when a layer is re-ingested with another geometry kind, the        *)
(* registry row carries the new kind and mesh-map table, the previous      *)
(* mesh-decomposition table is dropped (and recreated with the new kind's  *)
(* columns for lines and polygons), no generic row of the old kind with    *)
(* that source layer remains, and the meshes only the old content touched  *)
(* have the layer cleared from layerPresence and their flags refreshed.    *)
C32_KindChange ==
  KindChanged =>
    /\ RegisteredAs(callIn.def)
    /\ PreviousMeshMapReplaced(callIn.def, PreviousRow)
    /\ RowsOfKind(db, PreviousRow.geometryType, callIn.layerName) = {}
    /\ \A m \in OldOnlyMeshes(callIn.layerName) \cap DOMAIN db.idx :
         callIn.layerName \notin db.idx[m].layerPresence /\ FlagsRefreshed(m)

C32_Witness ==
  /\ KindChanged
  /\ PreviousRow.geometryType = "line" /\ callIn.def.geometryType = "polygon"
  /\ OldOnlyMeshes(callIn.layerName) \cap DOMAIN db.idx # {}
  /\ db.dyn[callIn.def.meshMapTable].rows # {}

KindChangeToPoint ==
  /\ KindChanged
  /\ PreviousRow.geometryType = "polygon" /\ callIn.def.geometryType = "point"
  /\ OldOnlyMeshes(callIn.layerName) # {}

(***************************************************************************)
(* buildMeshCells and meshCode250 on the same coordinate: gridIn is a bbox *)
(* around the coordinate callIn.a, gridOut the cells of the bbox, callOut  *)
(* the code of the coordinate.  The cell bounds lat0 = latSec / 3600 are   *)
(* the doubles nearest to the grid lines.                                  *)
(***************************************************************************)
AgreeBoxes ==
  {<<ORIGIN[1] - 45 * w, south - 30 * w, ORIGIN[1] + 90 + 45 * w, south + 60 + 30 * w>> :
     south \in {49 * 19200, ORIGIN[2]}, w \in {1, 2}}

AgreeEnvs == {EnvUnset, EnvNum(4), EnvNum(16)}

AgreeInit ==
  /\ db = EmptyDb
  /\ run = [pc |-> "idle", no |-> 0, todo |-> {}, ingested |-> {},
            exitCode |-> 0, err |-> "none"]
  /\ hist = NoHist
  /\ pre = EmptyDb
  /\ env = EnvUnset
  /\ gridIn \in [bbox : AgreeBoxes, e : AgreeEnvs]
  /\ gridOut = [done |-> FALSE, cells |-> <<>>]
  /\ callIn \in [fn : {"locate"}, a : CodecCoords]
  /\ callOut = NoCall
  /\ jobs = <<>>
  /\ lookup = NoLookup

LocateInGrid ==
  /\ callIn.fn = "locate"
  /\ ~gridOut.done
  /\ gridOut' = [done |-> TRUE, cells |-> buildMeshCells(gridIn.bbox, gridIn.e)]
  /\ callOut' = [fn |-> "locate",
                 code |-> meshCode250OfDoubles(callIn.a.lat, callIn.a.lon)]
  /\ UNCHANGED <<db, run, hist, pre, env, gridIn, callIn, jobs, lookup>>

AgreeNext == LocateInGrid

SpecAgree == AgreeInit /\ [][AgreeNext]_vars

(* x < y and x <= y for two doubles *)
DoubleLess(x, y) == x.u < y.u \/ (x.u = y.u /\ x.d < y.d)
DoubleLeq(x, y) == x.u < y.u \/ (x.u = y.u /\ x.d <= y.d)

(* lon0 <= lon < lon1 and lat0 <= lat < lat1 *)
CellContains(cell, c) ==
  /\ DoubleLeq(Nearest(cell.bbox[1]), c.lon) /\ DoubleLess(c.lon, Nearest(cell.bbox[3]))
  /\ DoubleLeq(Nearest(cell.bbox[2]), c.lat) /\ DoubleLess(c.lat, Nearest(cell.bbox[4]))

CellsContaining(c) == {i \in DOMAIN gridOut.cells : CellContains(gridOut.cells[i], c)}

StrictlyInside(c, bbox) ==
  /\ bbox[1] < c.lon.u /\ c.lon.u < bbox[3]
  /\ bbox[2] < c.lat.u /\ c.lat.u < bbox[4]

Located ==
  /\ callOut.fn = "locate"
  /\ gridOut.cells # <<>>
  /\ StrictlyInside(callIn.a, gridIn.bbox)
  /\ InsideJapan(callIn.a)

(* C33: for a bbox whose cell count is under the guard and a point         *)
(* strictly inside the bbox and the national extent, exactly one cell of   *)
(* buildMeshCells contains the point under half-open membership, and its   *)
(* meshId is meshCode250 of the point; a point on a grid line belongs to   *)
(* the cell whose lower or left bound is that coordinate.                  *)
C33_GridCodecAgreement ==
  Located =>
    /\ Cardinality(CellsContaining(callIn.a)) = 1
    /\ \A i \in CellsContaining(callIn.a) : gridOut.cells[i].meshId = callOut.code

(* the parts of the statement on their own *)
OneCellContains == Located => Cardinality(CellsContaining(callIn.a)) = 1

OnGridLine(c) ==
  \/ c.lat = Nearest(c.lat.u) /\ c.lat.u % MESH_LAT_STEP_SEC = 0
  \/ c.lon = Nearest(c.lon.u) /\ c.lon.u % MESH_LON_STEP_SEC = 0

AwayFromGridLines(c) ==
  c.lat.u % MESH_LAT_STEP_SEC # 0 /\ c.lon.u % MESH_LON_STEP_SEC # 0

AgreementOffLines ==
  (Located /\ AwayFromGridLines(callIn.a)) =>
    \A i \in CellsContaining(callIn.a) : gridOut.cells[i].meshId = callOut.code

AgreementOnLines ==
  (Located /\ OnGridLine(callIn.a)) =>
    \A i \in CellsContaining(callIn.a) : gridOut.cells[i].meshId = callOut.code

(* the parts of a multi-part feature that have a measure in a cell bbox *)
PartOf(g, i) == [type |-> g.type, parts |-> <<g.parts[i]>>]

PartsWithin(g, box) ==
  {i \in DOMAIN g.parts :
     IF IsLineGeom(g) THEN clippedHasLength(PartOf(g, i), box)
     ELSE clippedHasArea(PartOf(g, i), box)}

(* C34: the pieces returned for one line or polygon feature, single-part   *)
(* or multi-part, have pairwise distinct meshIds, and every piece has a    *)
(* strictly positive measure.                                              *)
C34_OnePiecePerCell ==
  PiecesBuilt =>
    /\ \A i, j \in DOMAIN callOut.pieces :
         i # j => callOut.pieces[i].meshId # callOut.pieces[j].meshId
    /\ \A k \in DOMAIN callOut.pieces : callOut.pieces[k].ratio[1] > 0

(* a multi-part line with two parts in one cell, cut into several pieces   *)
C34_Witness ==
  /\ callOut.fn = "buildLineMeshPieces"
  /\ callIn.feature.geometry.type = "MultiLineString"
  /\ Len(callOut.pieces) >= 2
  /\ \E cell \in Range(buildMeshCells(turfBbox(callIn.feature.geometry), callIn.e)) :
       Cardinality(PartsWithin(callIn.feature.geometry, cell.bbox)) >= 2

(* a cell of the bbox in which the feature has no measure gives no piece *)
CellWithoutPiece ==
  /\ PiecesBuilt
  /\ callOut.pieces # <<>>
  /\ Len(callOut.pieces) < Len(buildMeshCells(turfBbox(callIn.feature.geometry), callIn.e))

MultiPolygonInOneCell ==
  /\ callOut.fn = "buildPolygonMeshPieces"
  /\ callIn.feature.geometry.type = "MultiPolygon"
  /\ callOut.pieces # <<>>
  /\ \E cell \in Range(buildMeshCells(turfBbox(callIn.feature.geometry), callIn.e)) :
       Cardinality(PartsWithin(callIn.feature.geometry, cell.bbox)) >= 2

(***************************************************************************)
(* Each line, polygon and point row is written twice: to the layer's own   *)
(* tables and to the tables of the schema, under the layer's name.         *)
(***************************************************************************)
TableRowsOf(d, name) ==
  IF IsDyn(d, name) THEN d.dyn[name].rows
  ELSE CASE name = "mesh_index" /\ HasFixed(d, name) -> DOMAIN d.idx
         [] name = "point_features" /\ HasFixed(d, name) -> d.pf
         [] name = "line_features" /\ HasFixed(d, name) -> d.lf
         [] name = "polygon_features" /\ HasFixed(d, name) -> d.gf
         [] name = "line_mesh_map" /\ HasFixed(d, name) -> d.lmm
         [] name = "polygon_mesh_map" /\ HasFixed(d, name) -> d.pmm
         [] OTHER -> {}

GenericFeatures(d, kind, L) ==
  IF kind = "point" THEN LayerRows(d.pf, L)
  ELSE IF kind = "line" THEN LayerRows(d.lf, L)
  ELSE LayerRows(d.gf, L)

GenericMeshMap(d, kind, L) ==
  IF kind = "line" THEN LayerRows(d.lmm, L)
  ELSE IF kind = "polygon" THEN LayerRows(d.pmm, L)
  ELSE {}

MeshIdsIn(rows) == {r.meshId : r \in rows}

SameRowsWritten(d, table, generic) ==
  /\ tableExists(d, table)
  /\ Cardinality(TableRowsOf(d, table)) = Cardinality(generic)
  /\ SelectMeshIds(d, table) = MeshIdsIn(generic)

MeshIdsOfPieces(g) ==
  IF IsLineGeom(g) THEN MeshIdsIn(Range(buildLineMeshPieces(g, env)))
  ELSE MeshIdsIn(Range(buildPolygonMeshPieces(g, env)))

(* the row's lineId / polygonId is a feature row of the same layer, and    *)
(* the row's mesh is the mesh of one of that feature's pieces              *)
ReferencesOwnFeature(d, kind, L) ==
  \A m \in GenericMeshMap(d, kind, L) :
     \E f \in GenericFeatures(d, kind, L) :
        /\ f.id = m.ref
        /\ f.properties = m.properties
        /\ m.meshId \in MeshIdsOfPieces(f.geometry)

DualWritten(d, r) ==
  /\ SameRowsWritten(d, r.tableName, GenericFeatures(d, r.geometryType, r.layerName))
  /\ r.meshMapTable # NULL =>
       SameRowsWritten(d, r.meshMapTable,
                       GenericMeshMap(d, r.geometryType, r.layerName))
  /\ ReferencesOwnFeature(d, r.geometryType, r.layerName)

(* C35: after a completed, failure-free ingestion the layer's own table    *)
(* has as many rows as there are generic feature rows of the layer, its    *)
(* mesh-map table as many as there are generic mesh-map rows of the layer, *)
(* with the same mesh identifiers, and every generic mesh-map row          *)
(* references a feature row of the same layer whose piece it is.  Stated   *)
(* for every registered layer after each completed call.                   *)
C35_DualWriteConsistency ==
  LayerCallEnded => \A r \in db.reg : DualWritten(db, r)

(* the same for the layer of the call alone *)
DualWriteOfCalledLayer ==
  (LayerCallEnded /\ callOut.fn = "processLayer") =>
    \A r \in db.reg : r.layerName = callIn.layerName => DualWritten(db, r)

(* the same on stores in which no layer has the tables of the schema *)
SchemaTablesApart(d) ==
  /\ \A r \in d.reg : {r.tableName, r.meshMapTable} \cap FIXED_TABLES = {}
  /\ \A r, q \in d.reg :
       r # q => ({r.tableName, r.meshMapTable} \cap {q.tableName, q.meshMapTable})
                  \subseteq {NULL}

DualWriteWithTablesApart ==
  (LayerCallEnded /\ SchemaTablesApart(pre) /\ SchemaTablesApart(db)) =>
    \A r \in db.reg : DualWritten(db, r)

(* the layers registered under another source file than the call's *)
LayersOfOtherFiles == {r \in pre.reg : r.sourceFile # callIn.file}

FileCalled == callOut.fn = "ingestFile"

(* C36: ingestFile(F) adds, deletes or modifies no generic row, dynamic    *)
(* table, registry row or layerPresence key of a layer that is registered  *)
(* under another source file, whatever the two file names are.             *)
C36_CrossFileFrame ==
  FileCalled =>
    \A r \in LayersOfOtherFiles : LayerView(db, r.layerName) = LayerView(pre, r.layerName)

(* the same when the layer names the file derives are not registered under *)
(* another file                                                            *)
CallLayerNames ==
  {def.layerName : def \in Range(layerDefsOf(callIn.file, GivenFeatures))}

CrossFileFrameOfOwnNames ==
  (FileCalled /\ CallLayerNames \cap {r.layerName : r \in LayersOfOtherFiles} = {}) =>
    \A r \in LayersOfOtherFiles : LayerView(db, r.layerName) = LayerView(pre, r.layerName)

(***************************************************************************)
(* The tables of a layer: tableName and meshMapTable as ingestFile derives *)
(* them, or as the registry row of a removed layer holds them.             *)
(***************************************************************************)
TablesOfLayer(r) == {r.tableName, r.meshMapTable} \ {NULL}

OtherLayers(L) == {r \in pre.reg : r.layerName # L}

NamesApart(def) ==
  /\ TablesOfLayer(def) \cap FIXED_TABLES = {}
  /\ \A r \in OtherLayers(def.layerName) : TablesOfLayer(def) \cap TablesOfLayer(r) = {}

OthersRows(rows, L) == {r \in rows : r.sourceLayer # L}

(* the rows of the shared tables that are not the layer's, the entries of  *)
(* mesh_index and the tables of the other layers are still there           *)
NothingOfOthersRemoved(L) ==
  /\ DOMAIN pre.idx \subseteq DOMAIN db.idx
  /\ OthersRows(pre.pf, L) \subseteq db.pf
  /\ OthersRows(pre.lf, L) \subseteq db.lf
  /\ OthersRows(pre.gf, L) \subseteq db.gf
  /\ OthersRows(pre.lmm, L) \subseteq db.lmm
  /\ OthersRows(pre.pmm, L) \subseteq db.pmm
  /\ pre.dropped = db.dropped
  /\ \A r \in OtherLayers(L) :
       /\ r \in db.reg
       /\ \A t \in TablesOfLayer(r) :
            IsDyn(pre, t) => IsDyn(db, t) /\ pre.dyn[t].rows \subseteq db.dyn[t].rows

LayerCallMade == callOut.fn \in {"processLayer", "removeLayer"}

(* C37: the table and the mesh-map table of a layer are never a table of   *)
(* the schema nor a table of another registered layer, so the DELETE FROM  *)
(* and DROP TABLE of one layer remove no row of the shared tables or of    *)
(* another layer.                                                          *)
C37_TableNamesApart ==
  LayerCallMade => NamesApart(callIn.def) /\ NothingOfOthersRemoved(callIn.layerName)

(* where the names are apart nothing of the others is removed *)
ApartNamesKeepOthers ==
  (LayerCallMade /\ NamesApart(callIn.def) /\ SchemaTablesApart(pre)) =>
    NothingOfOthersRemoved(callIn.layerName)

(* a completed call of a layer named as another layer's mesh-map table     *)
(* that empties that table                                                 *)
OtherLayersTableEmptied ==
  /\ LayerCallEnded
  /\ TablesOfLayer(callIn.def) \cap FIXED_TABLES = {}
  /\ \E r \in OtherLayers(callIn.layerName) :
       /\ callIn.def.tableName = r.meshMapTable
       /\ pre.dyn[r.meshMapTable].rows # {}
       /\ IsDyn(db, r.meshMapTable) /\ db.dyn[r.meshMapTable].rows = {}

(***************************************************************************)
(* Two ingestFile runs on files of different layers whose features meet in *)
(* the cell of ORIGIN, each issuing its statements one at a time.          *)
(***************************************************************************)
SharedBases ==
  {EmptyDb,
   IngestedFrom(IngestedFrom(EmptyDb, F_a, FC(<<PolyAB>>)), F_b, FC(<<PointA, LineB>>))}

SharedPairs ==
  ({F_a} \X {FC(<<PointA>>), FC(<<LineACD>>)})
    \X ({F_b} \X {FC(<<PointA2>>), FC(<<PolyAB>>), FC(<<LineACD>>)})

SharedInit ==
  /\ db \in SharedBases
  /\ pre = db
  /\ run = [pc |-> "idle", no |-> 0, todo |-> {}, ingested |-> {},
            exitCode |-> 0, err |-> "none"]
  /\ hist = NoHist
  /\ env = EnvUnset
  /\ gridIn = GridIdle
  /\ gridOut = [done |-> FALSE, cells |-> <<>>]
  /\ callIn = NoCall
  /\ callOut = NoCall
  /\ jobs \in {<<NewFileJob(p[1][1], p[1][2]), NewFileJob(p[2][1], p[2][2])>>
                 : p \in SharedPairs}
  /\ lookup = NoLookup

SharedNext == IngestFileStep

SpecShared == SharedInit /\ [][SharedNext]_vars

BothCompleted == Len(jobs) = 2 /\ \A i \in 1..2 : jobs[i].pc = "done"

(* the meshes in which both files have rows *)
MeshesOfFile(d, f) ==
  UNION {TouchedMeshes(d, r.layerName) : r \in {x \in d.reg : x.sourceFile = f}}

CommonMeshes(d) == MeshesOfFile(d, jobs[1].file) \cap MeshesOfFile(d, jobs[2].file)

(* C38: when two runs on different layers that touch a common mesh have    *)
(* both completed, whatever the order of their statements, the flags of    *)
(* the mesh say which rows exist in it and its layerPresence holds exactly *)
(* the layers that have rows in it, as after running one after the other.  *)
C38_NoLostUpdate ==
  BothCompleted =>
    /\ FlagsConsistent(db)
    /\ PresenceConsistent(db)
    /\ db.idx = OneAfterTheOther(1, 2).idx
    /\ db.idx = OneAfterTheOther(2, 1).idx

(* both runs have ended and there is a mesh with rows of both, flagged for *)
(* two kinds and naming two layers, which had other rows before            *)
C38_Witness ==
  /\ BothCompleted
  /\ \E m \in CommonMeshes(db) :
       /\ db.idx[m].hasPoints /\ db.idx[m].hasLines
       /\ Cardinality(db.idx[m].layerPresence) = 2
       /\ m \in DOMAIN pre.idx /\ pre.idx[m].hasPolygons /\ ~db.idx[m].hasPolygons

(***************************************************************************)
(* The map view after the map has loaded: the refs of MapView, the         *)
(* feature state hasData of the grid source and the presence requests that *)
(* have not been answered.                                                 *)
(*   callIn  = [fn, highlightEnabled, presenceRequest, highlighted,        *)
(*              lastGridMeshIds, gridStatus, hasData]                      *)
(*   callOut = [fn, pending, answered]: the requests in flight, and the    *)
(*             last response handled with the view it arrived in           *)
(***************************************************************************)
MaxPresenceRequests == 3

ViewGrids == {{"5339461042", "5339461131"}, {"5339461131", "5339461044"}}

NoAnswer == [requestId |-> 0]

ViewInit ==
  /\ db = EmptyDb
  /\ pre = EmptyDb
  /\ run = [pc |-> "idle", no |-> 0, todo |-> {}, ingested |-> {},
            exitCode |-> 0, err |-> "none"]
  /\ hist = NoHist
  /\ env = EnvUnset
  /\ gridIn = GridIdle
  /\ gridOut = [done |-> FALSE, cells |-> <<>>]
  /\ \E h \in BOOLEAN :
       callIn = [fn |-> "MapView", highlightEnabled |-> h, presenceRequest |-> 0,
                 highlighted |-> {}, lastGridMeshIds |-> {}, gridStatus |-> "zoom",
                 hasData |-> {}]
  /\ callOut = [fn |-> "fetchMeshPresence", pending |-> {}, answered |-> NoAnswer]
  /\ jobs = <<>>
  /\ lookup = NoLookup

(* requestPresence up to its await: v the view, p the requests in flight *)
requestPresence(v, p, meshIds) ==
  IF ~v.highlightEnabled \/ meshIds = {} THEN [view |-> v, pending |-> p]
  ELSE [view |-> [v EXCEPT !.presenceRequest = @ + 1],
        pending |-> p \cup {[requestId |-> v.presenceRequest + 1, meshIds |-> meshIds]}]

(* every highlighted cell gets hasData: false and the set is emptied *)
clearHighlighted(v) ==
  [v EXCEPT !.hasData = @ \ v.highlighted, !.highlighted = {}]

(* updateGrid below GRID_MIN_ZOOM or above MAX_FEATURES *)
gridCleared(v, status) ==
  IF v.highlightEnabled
  THEN clearHighlighted([v EXCEPT !.gridStatus = status, !.lastGridMeshIds = {}])
  ELSE [v EXCEPT !.gridStatus = status, !.lastGridMeshIds = {}]

(* updateGrid with a grid to show *)
gridShown(v, meshIds) ==
  [v EXCEPT !.gridStatus = "ready", !.lastGridMeshIds = meshIds,
            !.hasData = IF v.highlightEnabled THEN @ \cup v.highlighted ELSE @]

ViewStep(r) ==
  /\ callIn' = r.view
  /\ callOut' = [callOut EXCEPT !.pending = r.pending]

UpdateGrid ==
  /\ callIn.fn = "MapView"
  /\ callIn.presenceRequest < MaxPresenceRequests
  /\ \/ \E status \in {"zoom", "dense"} :
          ViewStep([view |-> gridCleared(callIn, status), pending |-> callOut.pending])
     \/ \E meshIds \in ViewGrids :
          ViewStep(requestPresence(gridShown(callIn, meshIds), callOut.pending, meshIds))
  /\ UNCHANGED <<db, run, hist, pre, env, gridIn, gridOut, jobs, lookup>>

(* the effect on highlightData, run when the property changes *)
HighlightDataEffect ==
  /\ callIn.fn = "MapView"
  /\ callIn.presenceRequest < MaxPresenceRequests
  /\ IF callIn.highlightEnabled
     THEN ViewStep([view |-> clearHighlighted([callIn EXCEPT !.highlightEnabled = FALSE]),
                    pending |-> callOut.pending])
     ELSE ViewStep(requestPresence([callIn EXCEPT !.highlightEnabled = TRUE],
                                   callOut.pending, callIn.lastGridMeshIds))
  /\ UNCHANGED <<db, run, hist, pre, env, gridIn, gridOut, jobs, lookup>>

(* requestPresence after its await: the response names the cells next *)
presenceAnswered(v, requestId, next) ==
  IF v.presenceRequest # requestId \/ ~v.highlightEnabled THEN v
  ELSE [v EXCEPT !.hasData = (@ \ (v.highlighted \ next)) \cup (next \ v.highlighted),
                 !.highlighted = next]

PresenceResponse ==
  /\ callIn.fn = "MapView"
  /\ \E r \in callOut.pending : \E next \in SUBSET r.meshIds :
       /\ callIn' = presenceAnswered(callIn, r.requestId, next)
       /\ callOut' = [callOut EXCEPT !.pending = @ \ {r},
                                     !.answered = [requestId |-> r.requestId,
                                                   meshIds |-> r.meshIds,
                                                   next |-> next,
                                                   view |-> callIn]]
  /\ UNCHANGED <<db, run, hist, pre, env, gridIn, gridOut, jobs, lookup>>

(* fetchMeshPresence rejects: the catch only logs *)
PresenceFailed ==
  /\ callIn.fn = "MapView"
  /\ \E r \in callOut.pending :
       callOut' = [callOut EXCEPT !.pending = @ \ {r}]
  /\ UNCHANGED <<db, run, hist, pre, env, gridIn, gridOut, callIn, jobs, lookup>>

ViewNext == UpdateGrid \/ HighlightDataEffect \/ PresenceResponse \/ PresenceFailed

SpecView == ViewInit /\ [][ViewNext]_vars

Answered == callOut.fn = "fetchMeshPresence" /\ callOut.answered # NoAnswer

(* the last response changed the highlighted set, or marked a cell *)
AnswerChanged ==
  callIn.highlighted # callOut.answered.view.highlighted
    \/ callIn.hasData \ callOut.answered.view.hasData # {}

(* the response answers the request issued for the grid on display *)
AnswersDisplayedGrid ==
  /\ callOut.answered.view.gridStatus = "ready"
  /\ callOut.answered.meshIds = callOut.answered.view.lastGridMeshIds
  /\ callOut.answered.requestId = callOut.answered.view.presenceRequest
  /\ callOut.answered.view.highlightEnabled

(* holds in the state a response has just been handled in *)
JustAnswered ==
  /\ Answered
  /\ callIn = presenceAnswered(callOut.answered.view, callOut.answered.requestId,
                               callOut.answered.next)

(* C39: a presence response changes the highlighted set only if it answers *)
(* the request issued for the grid on display; a response superseded by a  *)
(* later request, or arriving after highlighting was switched off or after *)
(* the grid was cleared, marks no cell as having data.                     *)
C39_StaleResponsesDiscarded ==
  (JustAnswered /\ AnswerChanged) => AnswersDisplayedGrid

(* the parts of the statement on their own *)
SupersededDiscarded ==
  (JustAnswered /\ callOut.answered.requestId # callOut.answered.view.presenceRequest) =>
    ~AnswerChanged

SwitchedOffDiscarded ==
  (JustAnswered /\ ~callOut.answered.view.highlightEnabled) => ~AnswerChanged

ClearedGridDiscarded ==
  (JustAnswered /\ callOut.answered.view.gridStatus # "ready") => ~AnswerChanged

====
